---- MODULE Spec2Model ----
(***************************************************************************)
(* A model of the Musl interpreter core (src/musl.c) together with the     *)
(* extension functions PRINT, CALL and HALT of the standalone driver       *)
(* (src/main.c).                                                           *)
(*                                                                         *)
(* A source text is modelled as the sequence of tokens tokenize() yields   *)
(* for it; a char pointer into a source is the pair (source, index of the  *)
(* next token).  struct musl is the record m.  The C call stack of the     *)
(* interpreter (mu_run, program, stmt, fparams, extension function,        *)
(* mu_gosub) is the sequence cstack; pc says what the innermost activation *)
(* does next.                                                              *)
(*                                                                         *)
(* The host is a caller of the interface of src/musl.h: it creates one     *)
(* interpreter, registers the functions and sets the variables main() does, *)
(* and then calls mu_run() on one source after the other, also after a     *)
(* run that returned 0.  The sources are lexically valid, and a source     *)
(* stays readable after its run.                                           *)
(***************************************************************************)
EXTENDS Integers, Sequences, FiniteSets, TLC

VARIABLES m, cstack, pc, rv, g

vars == <<m, cstack, pc, rv, g>>

(* ------------------------------------------------------------------ *)
(* Program constants                                                   *)
(* ------------------------------------------------------------------ *)
MAX_PARAMS == 20
MAX_GOSUB == 20
MAX_FOR == 5
MAX_ERROR_TEXT == 80
TOK_SIZE == 80

(* Bounds of the model *)
MaxRuns == 2

MaxLangRuns == 1

MaxCount == 6

MaxAdds == 2

MaxCalls == 2

MaxVarRuns == 2
MaxText == 3

(* ------------------------------------------------------------------ *)
(* Pointers into a source, values, table entries                       *)
(* ------------------------------------------------------------------ *)
Ptr(src, pos) == [src |-> src, pos |-> pos]

NULL == Ptr(0, 0)

(* The content of memory that was never written *)
UNINIT == Ptr(0 - 1, 0 - 1)

V_int(n) == [type |-> "mu_int", i |-> n, s |-> <<>>]

V_str(str) == [type |-> "mu_str", i |-> 0, s |-> str]

NoVal == V_int(0)

(* A char * that is NULL *)
V_null == [type |-> "NULL", i |-> 0, s |-> <<>>]

(* ------------------------------------------------------------------ *)
(* Characters                                                          *)
(* ------------------------------------------------------------------ *)
Upper == <<"A","B","C","D","E","F","G","H","I","J","K","L","M",
           "N","O","P","Q","R","S","T","U","V","W","X","Y","Z">>

Lower == <<"a","b","c","d","e","f","g","h","i","j","k","l","m",
           "n","o","p","q","r","s","t","u","v","w","x","y","z">>

Digits == <<"0","1","2","3","4","5","6","7","8","9">>

IndexIn(seq, ch) == IF \E k \in 1..Len(seq) : seq[k] = ch
                    THEN CHOOSE k \in 1..Len(seq) : seq[k] = ch
                    ELSE 0

tolower(ch) == IF IndexIn(Upper, ch) > 0 THEN Lower[IndexIn(Upper, ch)] ELSE ch

isdigit(ch) == IndexIn(Digits, ch) > 0

isspace(ch) == ch \in {" ", "\t", "\n", "\r"}

LowerStr(str) == [k \in 1..Len(str) |-> tolower(str[k])]

(* ------------------------------------------------------------------ *)
(* int arithmetic: 32 bits, two's complement, wrapping on overflow as   *)
(* the usual build does                                                *)
(* ------------------------------------------------------------------ *)
INT_MAX == 2147483647

INT_MIN == (0 - INT_MAX) - 1

Add32(a, b) ==
    IF b > 0 /\ a > INT_MAX - b THEN ((a - INT_MAX) - 1) + ((b - INT_MAX) - 1)
    ELSE IF b < 0 /\ a < INT_MIN - b THEN ((a + INT_MAX) + 1) + ((b + INT_MAX) + 1)
    ELSE a + b

Neg32(a) == IF a = INT_MIN THEN INT_MIN ELSE 0 - a

Sub32(a, b) == IF b = INT_MIN THEN Add32(Add32(a, INT_MAX), 1) ELSE Add32(a, 0 - b)

(* a * b mod 2^32: the sum of a * 2^k over the bits k of b *)
RECURSIVE MulBits(_, _, _)
MulBits(a, b, k) ==
    IF k = 0 THEN 0
    ELSE Add32(IF b % 2 = 1 THEN a ELSE 0, MulBits(Add32(a, a), b \div 2, k - 1))

(* No product of two numbers below 46340 in size leaves the range of int *)
Mul32(a, b) ==
    IF a < 46340 /\ a > 0 - 46340 /\ b < 46340 /\ b > 0 - 46340
    THEN a * b
    ELSE MulBits(a, b, 32)

CDivPos(a, b) == IF a >= 0 THEN a \div b ELSE (a + (b - 1)) \div b

(* C division truncates toward zero *)
CDiv(a, b) ==
    IF b > 0 THEN CDivPos(a, b)
    ELSE IF b = INT_MIN THEN (IF a = INT_MIN THEN 1 ELSE 0)
    ELSE Neg32(CDivPos(a, 0 - b))

CMod(a, b) == IF a = INT_MIN /\ b = 0 - 1 THEN 0 ELSE a - b * CDiv(a, b)

(* a | b or a & b in two's complement: the lowest bit, and the rest    *)
(* from a \div 2 and b \div 2, which are 0 or -1 once the bits of an    *)
(* operand have run out                                                *)
RECURSIVE BitOp(_, _, _)
BitOp(isOr, a, b) ==
    LET bit == IF isOr THEN (IF (a % 2 = 1) \/ (b % 2 = 1) THEN 1 ELSE 0)
                       ELSE (IF (a % 2 = 1) /\ (b % 2 = 1) THEN 1 ELSE 0)
    IN  CASE a = 0 -> IF isOr THEN b ELSE 0
          [] a = 0 - 1 -> IF isOr THEN 0 - 1 ELSE b
          [] a \notin {0, 0 - 1} /\ b = 0 -> IF isOr THEN a ELSE 0
          [] a \notin {0, 0 - 1} /\ b = 0 - 1 -> IF isOr THEN 0 - 1 ELSE a
          [] OTHER -> bit + 2 * BitOp(isOr, a \div 2, b \div 2)

BitOr(a, b) == BitOp(TRUE, a, b)

BitAnd(a, b) == BitOp(FALSE, a, b)

(* atoi(): optional white space, optional sign, then decimal digits.    *)
(* The value of a digit string outside the range of int is undefined   *)
(* in C; the accumulation stops at the limit here.                     *)
RECURSIVE AtoiDigits(_, _, _, _)
AtoiDigits(str, k, acc, neg) ==
    IF k > Len(str) \/ ~isdigit(str[k]) THEN acc
    ELSE LET d == IndexIn(Digits, str[k]) - 1 IN
         IF neg
         THEN IF acc < ((INT_MIN + d) + 9) \div 10 THEN INT_MIN
              ELSE AtoiDigits(str, k + 1, acc * 10 - d, neg)
         ELSE IF acc > (INT_MAX - d) \div 10 THEN INT_MAX
              ELSE AtoiDigits(str, k + 1, acc * 10 + d, neg)

RECURSIVE SkipSpace(_, _)
SkipSpace(str, k) == IF k <= Len(str) /\ isspace(str[k]) THEN SkipSpace(str, k + 1) ELSE k

atoi(str) ==
    LET k == SkipSpace(str, 1) IN
    IF k <= Len(str) /\ str[k] = "-" THEN AtoiDigits(str, k + 1, 0, TRUE)
    ELSE IF k <= Len(str) /\ str[k] = "+" THEN AtoiDigits(str, k + 1, 0, FALSE)
    ELSE AtoiDigits(str, k, 0, FALSE)

(* sprintf(buffer, "%d", n) *)
RECURSIVE DecDigits(_)
DecDigits(n) == IF n < 10 THEN <<Digits[n + 1]>>
                ELSE DecDigits(n \div 10) \o <<Digits[(n % 10) + 1]>>

sprintf_d(n) ==
    IF n >= 0 THEN DecDigits(n)
    ELSE IF n > 0 - 10 THEN <<"-", Digits[(0 - n) + 1]>>
    ELSE <<"-">> \o DecDigits(0 - CDiv(n, 10)) \o <<Digits[(0 - CMod(n, 10)) + 1]>>

(* ------------------------------------------------------------------ *)
(* Tokens: what tokenize() returns for each lexeme of a source          *)
(* ------------------------------------------------------------------ *)
Id(str) == [t |-> "T_IDENT", tok |-> str]

Nm(str) == [t |-> "T_NUMBER", tok |-> str]

St(str) == [t |-> "T_STRING", tok |-> str]

Op(ch) == [t |-> ch, tok |-> <<>>]

LF == [t |-> "T_LF", tok |-> <<>>]

(* The table of keywords: the text of each, by its token kind *)
keywords ==
    [T_LET |-> <<"l","e","t">>, T_IF |-> <<"i","f">>, T_THEN |-> <<"t","h","e","n">>,
     T_KEND |-> <<"e","n","d">>, T_ON |-> <<"o","n">>, T_GOTO |-> <<"g","o","t","o">>,
     T_GOSUB |-> <<"g","o","s","u","b">>, T_RETURN |-> <<"r","e","t","u","r","n">>,
     T_AND |-> <<"a","n","d">>, T_OR |-> <<"o","r">>, T_NOT |-> <<"n","o","t">>,
     T_FOR |-> <<"f","o","r">>, T_TO |-> <<"t","o">>, T_DO |-> <<"d","o">>,
     T_STEP |-> <<"s","t","e","p">>, T_NEXT |-> <<"n","e","x","t">>]

(* The token of a keyword *)
Kw(kind) == [t |-> kind, tok |-> keywords[kind]]

(* The token kinds whose text tokenize() copies into m->token *)
TextKinds == {"T_IDENT", "T_NUMBER", "T_STRING", "T_LET", "T_IF", "T_THEN", "T_GOTO",
              "T_AND", "T_OR", "T_NOT", "T_GOSUB", "T_RETURN", "T_KEND", "T_ON",
              "T_FOR", "T_TO", "T_DO", "T_STEP", "T_NEXT"}

(* Names used by the sources below *)
f_print == <<"p","r","i","n","t">>

f_call == <<"c","a","l","l">>

f_halt == <<"h","a","l","t">>

f_undefined == <<"U","N","D","E","F","I","N","E","D","_","F","U","N","C">>

PRINT(str) == <<Id(<<"P","R","I","N","T">>), Op("("), St(str), Op(")")>>

PRINTV(name) == <<Id(<<"P","R","I","N","T">>), Op("("), Id(name), Op(")")>>

CALL(label) == <<Id(<<"C","A","L","L">>), Op("("), St(label), Op(")")>>

(* ------------------------------------------------------------------ *)
(* The sources the host runs                                           *)
(* ------------------------------------------------------------------ *)

(* 10 GOSUB 30 : PRINT("A") : END
   30 PRINT("B") : RETURN                                               *)
SrcGosub ==
    <<Nm(<<"1","0">>), Kw("T_GOSUB"), Nm(<<"3","0">>), Op(":")>> \o PRINT(<<"A">>)
    \o <<Op(":"), Kw("T_KEND"), LF, Nm(<<"3","0">>)>> \o PRINT(<<"B">>) \o <<Op(":"), Kw("T_RETURN"), LF>>

(* IF 0 THEN X = UNDEFINED_FUNC()                                       *)
SrcUndefFunc ==
    <<Kw("T_IF"), Nm(<<"0">>), Kw("T_THEN"), Id(<<"X">>), Op("="), Id(f_undefined), Op("("), Op(")"), LF>>

(* x = 1
   PRINT(x)                                                             *)
SrcAssign ==
    <<Id(<<"x">>), Op("="), Nm(<<"1">>), LF>> \o PRINTV(<<"x">>) \o <<LF>>

(* CALL("a") : PRINT("e")
   END
   a: CALL("b") : PRINT("c")
   RETURN
   PRINT("z")
   b: GOSUB d : RETURN
   d: PRINT("d") : RETURN                                               *)
SrcNest ==
    CALL(<<"a">>) \o <<Op(":")>> \o PRINT(<<"e">>) \o <<LF, Kw("T_KEND"), LF>>
    \o <<Id(<<"a">>), Op(":")>> \o CALL(<<"b">>) \o <<Op(":")>> \o PRINT(<<"c">>)
    \o <<LF, Kw("T_RETURN"), LF>> \o PRINT(<<"z">>) \o <<LF>>
    \o <<Id(<<"b">>), Op(":"), Kw("T_GOSUB"), Id(<<"d">>), Op(":"), Kw("T_RETURN"), LF>>
    \o <<Id(<<"d">>), Op(":")>> \o PRINT(<<"d">>) \o <<Op(":"), Kw("T_RETURN"), LF>>

(* CALL("a") : PRINT("e")
   END
   a: CALL("f") : PRINT("c")
   RETURN
   f: y = nosuch
   RETURN                                                               *)
SrcErr ==
    CALL(<<"a">>) \o <<Op(":")>> \o PRINT(<<"e">>) \o <<LF, Kw("T_KEND"), LF>>
    \o <<Id(<<"a">>), Op(":")>> \o CALL(<<"f">>) \o <<Op(":")>> \o PRINT(<<"c">>)
    \o <<LF, Kw("T_RETURN"), LF>>
    \o <<Id(<<"f">>), Op(":"), Id(<<"y">>), Op("="), Id(<<"n","o","s","u","c","h">>), LF,
         Kw("T_RETURN"), LF>>

(* CALL("nolabel")                                                      *)
SrcNoLabel == CALL(<<"n","o","l","a","b","e","l">>) \o <<LF>>

(* CALL("r")
   END
   r: CALL("r")
   RETURN                                                               *)
SrcRec ==
    CALL(<<"r">>) \o <<LF, Kw("T_KEND"), LF, Id(<<"r">>), Op(":")>> \o CALL(<<"r">>)
    \o <<LF, Kw("T_RETURN"), LF>>

(* 10 GOSUB 10                                                          *)
SrcDeep == <<Nm(<<"1","0">>), Kw("T_GOSUB"), Nm(<<"1","0">>), LF>>

(* RETURN                                                               *)
SrcReturn == <<Kw("T_RETURN"), LF>>

(* NEXT                                                                 *)
SrcNext == <<Kw("T_NEXT"), LF>>

(* 10 FOR i = 1 TO 2 DO
   GOTO 10                                                              *)
SrcForOver ==
    <<Nm(<<"1","0">>), Kw("T_FOR"), Id(<<"i">>), Op("="), Nm(<<"1">>), Kw("T_TO"), Nm(<<"2">>), Kw("T_DO"), LF,
      Kw("T_GOTO"), Nm(<<"1","0">>), LF>>

(* x = 1
   GOSUB 10
   END
   10 IF 0 THEN x = 2 : PRINT("n") : CALL("a") : GOSUB 10 : GOTO 10 : RETURN : NEXT
   IF 0 THEN FOR i = 1 TO 2 DO
   x = 3
   NEXT
   IF 0 THEN END
   PRINT(x)
   RETURN                                                               *)
SrcInactive ==
    <<Id(<<"x">>), Op("="), Nm(<<"1">>), LF, Kw("T_GOSUB"), Nm(<<"1","0">>), LF, Kw("T_KEND"), LF>>
    \o <<Nm(<<"1","0">>), Kw("T_IF"), Nm(<<"0">>), Kw("T_THEN"), Id(<<"x">>), Op("="), Nm(<<"2">>), Op(":")>>
    \o PRINT(<<"n">>) \o <<Op(":")>> \o CALL(<<"a">>)
    \o <<Op(":"), Kw("T_GOSUB"), Nm(<<"1","0">>), Op(":"), Kw("T_GOTO"), Nm(<<"1","0">>), Op(":"),
         Kw("T_RETURN"), Op(":"), Kw("T_NEXT"), LF>>
    \o <<Kw("T_IF"), Nm(<<"0">>), Kw("T_THEN"), Kw("T_FOR"), Id(<<"i">>), Op("="), Nm(<<"1">>), Kw("T_TO"), Nm(<<"2">>),
         Kw("T_DO"), LF, Id(<<"x">>), Op("="), Nm(<<"3">>), LF, Kw("T_NEXT"), LF>>
    \o <<Kw("T_IF"), Nm(<<"0">>), Kw("T_THEN"), Kw("T_KEND"), LF>>
    \o PRINTV(<<"x">>) \o <<LF, Kw("T_RETURN"), LF>>

(* CALL("a") : PRINT("e")
   END
   a: GOSUB b
   PRINT("n")
   b: END                                                               *)
SrcCallEnd ==
    CALL(<<"a">>) \o <<Op(":")>> \o PRINT(<<"e">>) \o <<LF, Kw("T_KEND"), LF>>
    \o <<Id(<<"a">>), Op(":"), Kw("T_GOSUB"), Id(<<"b">>), LF>> \o PRINT(<<"n">>) \o <<LF>>
    \o <<Id(<<"b">>), Op(":"), Kw("T_KEND"), LF>>

(* CALL("a")
   END
   a: GOSUB b
   RETURN
   b: IF 0 THEN x = UNDEFINED_FUNC()                                    *)
SrcCallIfErr ==
    CALL(<<"a">>) \o <<LF, Kw("T_KEND"), LF>>
    \o <<Id(<<"a">>), Op(":"), Kw("T_GOSUB"), Id(<<"b">>), LF, Kw("T_RETURN"), LF>>
    \o <<Id(<<"b">>), Op(":"), Kw("T_IF"), Nm(<<"0">>), Kw("T_THEN"), Id(<<"x">>), Op("="), Id(f_undefined),
         Op("("), Op(")"), LF>>

(* FOR i = 1 TO 2 DO
   PRINT(i)
   NEXT                                                                 *)
SrcFor ==
    <<Kw("T_FOR"), Id(<<"i">>), Op("="), Nm(<<"1">>), Kw("T_TO"), Nm(<<"2">>), Kw("T_DO"), LF>>
    \o PRINTV(<<"i">>) \o <<LF, Kw("T_NEXT"), LF>>

Scripts == <<SrcGosub, SrcUndefFunc, SrcAssign, SrcNest, SrcErr, SrcNoLabel, SrcRec,
             SrcDeep, SrcReturn, SrcNext, SrcForOver, SrcInactive, SrcCallEnd,
             SrcCallIfErr, SrcFor>>

(* ------------------------------------------------------------------ *)
(* Sources that exercise one construct of the language each            *)
(* ------------------------------------------------------------------ *)

(* The tokens of the decimal literal of n; a negative one is '-' and   *)
(* the literal of its magnitude                                        *)
Num(n) == IF n >= 0 THEN <<Nm(sprintf_d(n))>> ELSE <<Op("-"), Nm(sprintf_d(0 - n))>>

(* FOR i = from TO to [STEP step] DO
   PRINT(i)
   NEXT                                   from, to, step: tokens; no STEP
                                          when step is empty            *)
ForLoop(from, to, step) ==
    <<Kw("T_FOR"), Id(<<"i">>), Op("=")>> \o from \o <<Kw("T_TO")>> \o to
    \o (IF step = <<>> THEN <<>> ELSE <<Kw("T_STEP")>> \o step)
    \o <<Kw("T_DO"), LF>> \o PRINTV(<<"i">>) \o <<LF, Kw("T_NEXT"), LF>>

(* The loops without STEP: start and stop *)
ForCases == << <<1, 3>>, <<3, 1>>, <<2, 2>>, <<0 - 1, 1>> >>

(* The loops with STEP: start, stop and step.  The first two land on   *)
(* stop, the others step over it or away from it.                      *)
StepCases == << <<0, 4, 2>>, <<4, 0, 0 - 2>>, <<0, 3, 2>>, <<1, 3, 0 - 1>> >>

(* n = 3
   FOR i = 1 TO n DO
   n = 2
   NEXT
   PRINT(i)                                                             *)
SrcStopMoves ==
    <<Id(<<"n">>), Op("="), Nm(<<"3">>), LF,
      Kw("T_FOR"), Id(<<"i">>), Op("="), Nm(<<"1">>), Kw("T_TO"), Id(<<"n">>), Kw("T_DO"), LF,
      Id(<<"n">>), Op("="), Nm(<<"2">>), LF, Kw("T_NEXT"), LF>> \o PRINTV(<<"i">>) \o <<LF>>

ForScripts ==
    [k \in 1..Len(ForCases) |-> ForLoop(Num(ForCases[k][1]), Num(ForCases[k][2]), <<>>)]
    \o [k \in 1..Len(StepCases) |->
            ForLoop(Num(StepCases[k][1]), Num(StepCases[k][2]), Num(StepCases[k][3]))]
    \o <<SrcStopMoves>>

(* The sources with labels:
   1   20 PRINT("a")                  2   <empty line>
       10 PRINT("b")                      20 PRINT("a")
                                          10 PRINT("b")
   3   10 PRINT("1")                  4   a: PRINT("1")
       10 PRINT("2")                      a: PRINT("2")
   5   <empty line>
       top: mynum = mynum - 12344
       IF mynum = 1 THEN GOTO top
   6   10 PRINT("a") : x = 1
       lab: PRINT("b")
       20 GOTO 40
       30 PRINT("c")
       40 PRINT("d")                                                    *)
LabelScripts ==
    << <<Nm(<<"2","0">>)>> \o PRINT(<<"a">>) \o <<LF, Nm(<<"1","0">>)>> \o PRINT(<<"b">>) \o <<LF>>,
       <<LF, Nm(<<"2","0">>)>> \o PRINT(<<"a">>) \o <<LF, Nm(<<"1","0">>)>> \o PRINT(<<"b">>) \o <<LF>>,
       <<Nm(<<"1","0">>)>> \o PRINT(<<"1">>) \o <<LF, Nm(<<"1","0">>)>> \o PRINT(<<"2">>) \o <<LF>>,
       <<Id(<<"a">>), Op(":")>> \o PRINT(<<"1">>) \o <<LF, Id(<<"a">>), Op(":")>> \o PRINT(<<"2">>) \o <<LF>>,
       <<LF, Id(<<"t","o","p">>), Op(":"), Id(<<"m","y","n","u","m">>), Op("="),
         Id(<<"m","y","n","u","m">>), Op("-"), Nm(<<"1","2","3","4","4">>), LF,
         Kw("T_IF"), Id(<<"m","y","n","u","m">>), Op("="), Nm(<<"1">>), Kw("T_THEN"),
         Kw("T_GOTO"), Id(<<"t","o","p">>), LF>>,
       <<Nm(<<"1","0">>)>> \o PRINT(<<"a">>) \o <<Op(":"), Id(<<"x">>), Op("="), Nm(<<"1">>), LF,
         Id(<<"l","a","b">>), Op(":")>> \o PRINT(<<"b">>)
         \o <<LF, Nm(<<"2","0">>), Kw("T_GOTO"), Nm(<<"4","0">>), LF, Nm(<<"3","0">>)>>
         \o PRINT(<<"c">>) \o <<LF, Nm(<<"4","0">>)>> \o PRINT(<<"d">>) \o <<LF>> >>

(* ON sel jump a, b : PRINT("r")
   PRINT("n")
   END
   a: PRINT("a") : back
   b: PRINT("b") : back               jump GOTO or GOSUB, back END or
                                      RETURN                            *)
OnList(sel, jump) ==
    <<Kw("T_ON")>> \o sel \o <<Kw(jump), Id(<<"a">>), Op(","), Id(<<"b">>), Op(":")>>
    \o PRINT(<<"r">>) \o <<LF>> \o PRINT(<<"n">>) \o <<LF, Kw("T_KEND"), LF>>
    \o <<Id(<<"a">>), Op(":")>> \o PRINT(<<"a">>)
    \o <<Op(":"), Kw(IF jump = "T_GOSUB" THEN "T_RETURN" ELSE "T_KEND"), LF>>
    \o <<Id(<<"b">>), Op(":")>> \o PRINT(<<"b">>)
    \o <<Op(":"), Kw(IF jump = "T_GOSUB" THEN "T_RETURN" ELSE "T_KEND"), LF>>

(* The selector and the keyword of each ON *)
OnCases == << <<0 - 1, "T_GOTO">>, <<0, "T_GOTO">>, <<1, "T_GOTO">>, <<2, "T_GOTO">>,
              <<0 - 1, "T_GOSUB">>, <<0, "T_GOSUB">>, <<1, "T_GOSUB">>, <<2, "T_GOSUB">> >>

OnScripts == [k \in 1..Len(OnCases) |-> OnList(Num(OnCases[k][1]), OnCases[k][2])]

HALT == <<Id(<<"H","A","L","T">>), Op("("), Op(")")>>

(* The sources that call HALT():
   1   PRINT("a")                     2   CALL("s") : PRINT("e")
       HALT()                             PRINT("f")
       PRINT("b")                         END
                                          s: HALT()
   3   PRINT("a")                         PRINT("x")
       PRINT(HALT())                      RETURN
       PRINT("b")
   4   x = HALT() : PRINT("c")
       PRINT("b")                                                       *)
HaltScripts ==
    << PRINT(<<"a">>) \o <<LF>> \o HALT \o <<LF>> \o PRINT(<<"b">>) \o <<LF>>,
       CALL(<<"s">>) \o <<Op(":")>> \o PRINT(<<"e">>) \o <<LF>> \o PRINT(<<"f">>)
         \o <<LF, Kw("T_KEND"), LF, Id(<<"s">>), Op(":")>> \o HALT \o <<LF>> \o PRINT(<<"x">>)
         \o <<LF, Kw("T_RETURN"), LF>>,
       PRINT(<<"a">>) \o <<LF, Id(<<"P","R","I","N","T">>), Op("(")>> \o HALT \o <<Op(")"), LF>>
         \o PRINT(<<"b">>) \o <<LF>>,
       <<Id(<<"x">>), Op("=")>> \o HALT \o <<Op(":")>> \o PRINT(<<"c">>) \o <<LF>>
         \o PRINT(<<"b">>) \o <<LF>> >>

f_show == <<"s","h","o","w">>

(* 1, 2, ..., n as the arguments of a call *)
Args(n) == [j \in 1..(2 * n - 1) |-> IF j % 2 = 1 THEN Nm(sprintf_d((j + 1) \div 2)) ELSE Op(",")]

(* The sources that call functions:
   1   PRINT(novar, 1 / 0)
   2   x = NOSUCH(1) : PRINT("n")
   3   PRINT(1, 2, ..., MAX_PARAMS)
   4   PRINT(1, 2, ..., MAX_PARAMS, novar)
   5   SHOW("b") : show("c") : Show("d")
   6   PRINT("p")                                                       *)
CallScripts ==
    << <<Id(<<"P","R","I","N","T">>), Op("("), Id(<<"n","o","v","a","r">>), Op(","),
         Nm(<<"1">>), Op("/"), Nm(<<"0">>), Op(")"), LF>>,
       <<Id(<<"x">>), Op("="), Id(<<"N","O","S","U","C","H">>), Op("("), Nm(<<"1">>),
         Op(")"), Op(":")>> \o PRINT(<<"n">>) \o <<LF>>,
       <<Id(<<"P","R","I","N","T">>), Op("(")>> \o Args(MAX_PARAMS) \o <<Op(")"), LF>>,
       <<Id(<<"P","R","I","N","T">>), Op("(")>> \o Args(MAX_PARAMS)
         \o <<Op(","), Id(<<"n","o","v","a","r">>), Op(")"), LF>>,
       <<Id(<<"S","H","O","W">>), Op("("), St(<<"b">>), Op(")"), Op(":"),
         Id(<<"s","h","o","w">>), Op("("), St(<<"c">>), Op(")"), Op(":"),
         Id(<<"S","h","o","w">>), Op("("), St(<<"d">>), Op(")"), LF>>,
       PRINT(<<"p">>) \o <<LF>> >>

(* The operands of the comparisons *)
CompOperands == <<Nm(<<"2">>), Nm(<<"1","0">>), St(<<"2">>), St(<<"1","0">>)>>

(* The pairs (left operand, right operand) of the comparisons *)
CompCases ==
    [k \in 1..(Len(CompOperands) * Len(CompOperands)) |->
        <<CompOperands[((k - 1) \div Len(CompOperands)) + 1],
          CompOperands[((k - 1) % Len(CompOperands)) + 1]>>]

(* PRINT(a = b, a < b, a > b, a ~ b) *)
CompLine(a, b) ==
    <<Id(<<"P","R","I","N","T">>), Op("("), a, Op("="), b, Op(","), a, Op("<"), b, Op(","),
      a, Op(">"), b, Op(","), a, Op("~"), b, Op(")"), LF>>

CompScripts == [k \in 1..Len(CompCases) |-> CompLine(CompCases[k][1], CompCases[k][2])]

(* The operands of the arithmetic operators: 7, "3x", "x", "-2" *)
ArithOperands == <<Nm(<<"7">>), St(<<"3","x">>), St(<<"x">>), St(<<"-","2">>)>>

(* The pairs (left operand, right operand) of the arithmetic operators *)
ArithCases ==
    [k \in 1..(Len(ArithOperands) * Len(ArithOperands)) |->
        <<ArithOperands[((k - 1) \div Len(ArithOperands)) + 1],
          ArithOperands[((k - 1) % Len(ArithOperands)) + 1]>>]

(* PRINT(a + b, a - b, a * b, a AND b, a OR b, a & b) *)
ArithLine(a, b) ==
    <<Id(<<"P","R","I","N","T">>), Op("("), a, Op("+"), b, Op(","), a, Op("-"), b, Op(","),
      a, Op("*"), b, Op(","), a, Kw("T_AND"), b, Op(","), a, Kw("T_OR"), b, Op(","),
      a, Op("&"), b, Op(")"), LF>>

ArithScripts == [k \in 1..Len(ArithCases) |-> ArithLine(ArithCases[k][1], ArithCases[k][2])]

(* PRINT(a / b, a % b) *)
DivLine(a, b) ==
    <<Id(<<"P","R","I","N","T">>), Op("("), a, Op("/"), b, Op(","), a, Op("%"), b, Op(")"), LF>>

(* x = 5 : x = a / b : PRINT("n")   and   x = 5 : x = a % b : PRINT("n") *)
DivAssign(a, op, b) ==
    <<Id(<<"x">>), Op("="), Nm(<<"5">>), Op(":"),
      Id(<<"x">>), Op("="), a, Op(op), b, Op(":")>> \o PRINT(<<"n">>) \o <<LF>>

DivScripts ==
    [k \in 1..Len(ArithCases) |-> DivLine(ArithCases[k][1], ArithCases[k][2])]
        \o << DivAssign(Nm(<<"7">>), "/", Nm(<<"0">>)),
              DivAssign(Nm(<<"7">>), "%", St(<<"x">>)) >>

(* The integers of the round trip through a string *)
RoundInts ==
    <<0, 7, 0 - 7, 10, 0 - 10, 99, 0 - 100, 1000000000, 0 - 1000000000,
      INT_MAX, 0 - INT_MAX, INT_MIN>>

(* An expression whose value is n: a literal, -literal, or             *)
(* -2147483647 - 1 for INT_MIN                                         *)
IntExpr(n) ==
    IF n >= 0 THEN <<Nm(sprintf_d(n))>>
    ELSE IF n = INT_MIN THEN <<Op("-"), Nm(sprintf_d(INT_MAX)), Op("-"), Nm(<<"1">>)>>
    ELSE <<Op("-"), Nm(sprintf_d(0 - n))>>

(* y$ = n & "" : PRINT(y$ + 0) *)
RoundScripts ==
    [k \in 1..Len(RoundInts) |->
        <<Id(<<"y","$">>), Op("=")>> \o IntExpr(RoundInts[k])
            \o <<Op("&"), St(<<>>), Op(":"), Id(<<"P","R","I","N","T">>), Op("("),
                 Id(<<"y","$">>), Op("+"), Nm(<<"0">>), Op(")"), LF>>]

(* v = n, for a variable with a name of one letter *)
Assign(v, n) == <<Id(<<v>>), Op("="), Nm(sprintf_d(n))>>

(* IF cond THEN *)
If(cond) == <<Kw("T_IF")>> \o cond \o <<Kw("T_THEN")>>

(* The lines after x = 0 : y = 0 : z = 0 of the sources with IF, and   *)
(* the values of x, y and z that a run in active mode ends with:
    1   IF 1 THEN x = 1 : y = 2            2   IF 0 THEN x = 1 : y = 2
        z = 3                                  z = 3
    3   IF "7x" THEN x = 1                 4   IF "ab" THEN x = 1
        z = 3                                  z = 3
    5   IF 0 - 2 THEN x = 1                6   IF 1 THEN GOTO out
        z = 3                                  x = 1
                                               out: z = 3
    7   IF 0 THEN GOTO out                 8   IF 2 THEN IF 0 THEN x = 1 : y = 2
        x = 1                                  z = 3
        out: z = 3
    9   IF 0 THEN IF 1 THEN x = 1         10   IF 2 THEN IF 3 THEN x = 1 : y = 2
        z = 3                                  z = 3
   11   IF 1 THEN                         12   IF 1 THEN x = 1 : GOTO out
                                               y = 2
        x = 1                                  out: z = 3
        z = 3
   13   IF 0 THEN x = 1 : GOTO out
        y = 2
        out: z = 3                                                        *)
IfCases ==
    << <<If(<<Nm(<<"1">>)>>) \o Assign("x", 1) \o <<Op(":")>> \o Assign("y", 2) \o <<LF>>
           \o Assign("z", 3) \o <<LF>>, 1, 2, 3>>,
       <<If(<<Nm(<<"0">>)>>) \o Assign("x", 1) \o <<Op(":")>> \o Assign("y", 2) \o <<LF>>
           \o Assign("z", 3) \o <<LF>>, 0, 0, 3>>,
       <<If(<<St(<<"7","x">>)>>) \o Assign("x", 1) \o <<LF>> \o Assign("z", 3) \o <<LF>>, 1, 0, 3>>,
       <<If(<<St(<<"a","b">>)>>) \o Assign("x", 1) \o <<LF>> \o Assign("z", 3) \o <<LF>>, 0, 0, 3>>,
       <<If(<<Nm(<<"0">>), Op("-"), Nm(<<"2">>)>>) \o Assign("x", 1) \o <<LF>>
           \o Assign("z", 3) \o <<LF>>, 1, 0, 3>>,
       <<If(<<Nm(<<"1">>)>>) \o <<Kw("T_GOTO"), Id(<<"o","u","t">>), LF>> \o Assign("x", 1)
           \o <<LF, Id(<<"o","u","t">>), Op(":")>> \o Assign("z", 3) \o <<LF>>, 0, 0, 3>>,
       <<If(<<Nm(<<"0">>)>>) \o <<Kw("T_GOTO"), Id(<<"o","u","t">>), LF>> \o Assign("x", 1)
           \o <<LF, Id(<<"o","u","t">>), Op(":")>> \o Assign("z", 3) \o <<LF>>, 1, 0, 3>>,
       <<If(<<Nm(<<"2">>)>>) \o If(<<Nm(<<"0">>)>>) \o Assign("x", 1) \o <<Op(":")>>
           \o Assign("y", 2) \o <<LF>> \o Assign("z", 3) \o <<LF>>, 0, 0, 3>>,
       <<If(<<Nm(<<"0">>)>>) \o If(<<Nm(<<"1">>)>>) \o Assign("x", 1) \o <<LF>>
           \o Assign("z", 3) \o <<LF>>, 0, 0, 3>>,
       <<If(<<Nm(<<"2">>)>>) \o If(<<Nm(<<"3">>)>>) \o Assign("x", 1) \o <<Op(":")>>
           \o Assign("y", 2) \o <<LF>> \o Assign("z", 3) \o <<LF>>, 1, 2, 3>>,
       <<If(<<Nm(<<"1">>)>>) \o <<LF, LF>> \o Assign("x", 1) \o <<LF>>
           \o Assign("z", 3) \o <<LF>>, 1, 0, 3>>,
       <<If(<<Nm(<<"1">>)>>) \o Assign("x", 1) \o <<Op(":"), Kw("T_GOTO"), Id(<<"o","u","t">>), LF>>
           \o Assign("y", 2) \o <<LF, Id(<<"o","u","t">>), Op(":")>> \o Assign("z", 3) \o <<LF>>,
         1, 0, 3>>,
       <<If(<<Nm(<<"0">>)>>) \o Assign("x", 1) \o <<Op(":"), Kw("T_GOTO"), Id(<<"o","u","t">>), LF>>
           \o Assign("y", 2) \o <<LF, Id(<<"o","u","t">>), Op(":")>> \o Assign("z", 3) \o <<LF>>,
         0, 2, 3>> >>

IfScripts ==
    [k \in 1..Len(IfCases) |->
        Assign("x", 0) \o <<Op(":")>> \o Assign("y", 0) \o <<Op(":")>> \o Assign("z", 0)
            \o <<LF>> \o IfCases[k][1]]

(* FOR v = 1 TO n DO, for a variable with a name of one letter *)
For(v, n) ==
    <<Kw("T_FOR"), Id(<<v>>), Op("="), Nm(<<"1">>), Kw("T_TO"), Nm(sprintf_d(n)), Kw("T_DO"), LF>>

(* The sources with a FOR in an untaken IF, after the line              *)
(* i = 5 : x = 0, and the depth of the FOR stack at that FOR:
    1   IF 0 THEN FOR i = 1 TO 3 DO        2   IF 0 THEN FOR i = 1 TO 3 DO
        x = 1                                  FOR j = 1 TO 2 DO
        NEXT                                   x = 1
        PRINT("d")                             NEXT
                                               x = 2
                                               NEXT
                                               PRINT("d")
    3   IF 0 THEN FOR i = 1 TO 3 DO        4   IF 0 THEN FOR i = 1 TO 3 DO
        10 x = 1                               NEXT
        lab: x = 2                             PRINT("d")
        END
        NEXT
        PRINT("d")
    5   FOR k = 1 TO 1 DO                  6   IF 0 THEN FOR i = 1 TO 3 DO
        IF 0 THEN FOR i = 1 TO 3 DO            x = 1 : NEXT
        x = 1                                  PRINT("d")
        NEXT
        PRINT("d")
        NEXT                                                            *)
SkipCases ==
    << <<If(<<Nm(<<"0">>)>>) \o For("i", 3) \o Assign("x", 1) \o <<LF, Kw("T_NEXT"), LF>>
           \o PRINT(<<"d">>) \o <<LF>>, 0>>,
       <<If(<<Nm(<<"0">>)>>) \o For("i", 3) \o For("j", 2) \o Assign("x", 1)
           \o <<LF, Kw("T_NEXT"), LF>> \o Assign("x", 2) \o <<LF, Kw("T_NEXT"), LF>>
           \o PRINT(<<"d">>) \o <<LF>>, 0>>,
       <<If(<<Nm(<<"0">>)>>) \o For("i", 3) \o <<Nm(<<"1","0">>)>> \o Assign("x", 1)
           \o <<LF, Id(<<"l","a","b">>), Op(":")>> \o Assign("x", 2)
           \o <<LF, Kw("T_KEND"), LF, Kw("T_NEXT"), LF>> \o PRINT(<<"d">>) \o <<LF>>, 0>>,
       <<If(<<Nm(<<"0">>)>>) \o For("i", 3) \o <<Kw("T_NEXT"), LF>>
           \o PRINT(<<"d">>) \o <<LF>>, 0>>,
       <<For("k", 1) \o If(<<Nm(<<"0">>)>>) \o For("i", 3) \o Assign("x", 1)
           \o <<LF, Kw("T_NEXT"), LF>> \o PRINT(<<"d">>) \o <<LF, Kw("T_NEXT"), LF>>, 1>>,
       <<If(<<Nm(<<"0">>)>>) \o For("i", 3) \o Assign("x", 1) \o <<Op(":"), Kw("T_NEXT"), LF>>
           \o PRINT(<<"d">>) \o <<LF>>, 0>> >>

SkipScripts ==
    [k \in 1..Len(SkipCases) |->
        Assign("i", 5) \o <<Op(":")>> \o Assign("x", 0) \o <<LF>> \o SkipCases[k][1]]

(* The sources that name a missing symbol in an untaken IF:
   1   IF 0 THEN x = novar : y = novar[1] & "a"      2   IF 0 THEN GOTO nowhere
       z = 1                                             z = 1
   3   IF 0 THEN GOSUB nowhere                       4   IF 0 THEN GOTO there
       z = 1                                             z = 1
                                                         there: y = 2   *)
MissScripts ==
    << If(<<Nm(<<"0">>)>>) \o <<Id(<<"x">>), Op("="), Id(<<"n","o","v","a","r">>), Op(":"),
            Id(<<"y">>), Op("="), Id(<<"n","o","v","a","r">>), Op("["), Nm(<<"1">>), Op("]"),
            Op("&"), St(<<"a">>), LF>> \o Assign("z", 1) \o <<LF>>,
       If(<<Nm(<<"0">>)>>) \o <<Kw("T_GOTO"), Id(<<"n","o","w","h","e","r","e">>), LF>>
            \o Assign("z", 1) \o <<LF>>,
       If(<<Nm(<<"0">>)>>) \o <<Kw("T_GOSUB"), Id(<<"n","o","w","h","e","r","e">>), LF>>
            \o Assign("z", 1) \o <<LF>>,
       If(<<Nm(<<"0">>)>>) \o <<Kw("T_GOTO"), Id(<<"t","h","e","r","e">>), LF>>
            \o Assign("z", 1) \o <<LF, Id(<<"t","h","e","r","e">>), Op(":")>>
            \o Assign("y", 2) \o <<LF>> >>

(* The sources that call functions with string arguments:
   1   PRINT("a", 1, "b")                 2   CALL("sub") : END
       x = LEN("ab") + VAL("1")               sub: PRINT("a") : RETURN
   3   CALL("sub") : END                  4   CALL("sub") : END
       sub: PRINT() : RETURN                  sub: PRINT("x", "y") : RETURN
   5   IF 0 THEN PRINT("a", "b")                                        *)
RelSub(args) ==
    CALL(<<"s","u","b">>) \o <<Op(":"), Kw("T_KEND"), LF, Id(<<"s","u","b">>), Op(":"),
                                Id(<<"P","R","I","N","T">>), Op("(")>>
        \o args \o <<Op(")"), Op(":"), Kw("T_RETURN"), LF>>

RelScripts ==
    << <<Id(<<"P","R","I","N","T">>), Op("("), St(<<"a">>), Op(","), Nm(<<"1">>), Op(","),
         St(<<"b">>), Op(")"), LF,
         Id(<<"x">>), Op("="), Id(<<"L","E","N">>), Op("("), St(<<"a","b">>), Op(")"), Op("+"),
         Id(<<"V","A","L">>), Op("("), St(<<"1">>), Op(")"), LF>>,
       RelSub(<<St(<<"a">>)>>),
       RelSub(<<>>),
       RelSub(<<St(<<"x">>), Op(","), St(<<"y">>)>>),
       If(<<Nm(<<"0">>)>>) \o <<Id(<<"P","R","I","N","T">>), Op("("), St(<<"a">>), Op(","),
                                St(<<"b">>), Op(")"), LF>> >>

(* The sources whose subroutine, called by CALL(), ends in an untaken  *)
(* IF or inside a FOR:
   1   CALL("sub") : END                  2   CALL("sub") : END
       sub: x = 1 : RETURN                    sub: IF 0 THEN x = )
                                              RETURN
   3   CALL("sub") : END
       sub: FOR i = 1 TO 2 DO
       RETURN
       NEXT                                                             *)
CbSub(body) ==
    CALL(<<"s","u","b">>) \o <<Op(":"), Kw("T_KEND"), LF, Id(<<"s","u","b">>), Op(":")>>
        \o body \o <<Kw("T_RETURN"), LF>>

CbScripts ==
    << CbSub(Assign("x", 1) \o <<Op(":")>>),
       CbSub(If(<<Nm(<<"0">>)>>) \o <<Id(<<"x">>), Op("="), Op(")"), LF>>),
       CbSub(For("i", 2)) \o <<Kw("T_NEXT"), LF>> >>

(* The sources that end inside the body of a FOR in an untaken IF,     *)
(* after the line i = 5 : x = 0:
   1   IF 0 THEN FOR i = 1 TO 3 DO        2   IF 0 THEN FOR i = 1 TO 3 DO
       x = 1                                  x = 1
                                              END
   3   IF 0 THEN FOR i = 1 TO 3 DO        4   IF 0 THEN FOR i = 1 TO 3 DO
       x = 1 +                                x = 1
                                              NEXT                      *)
OpenForCases ==
    << Assign("x", 1) \o <<LF>>,
       Assign("x", 1) \o <<LF, Kw("T_KEND"), LF>>,
       Assign("x", 1) \o <<Op("+"), LF>>,
       Assign("x", 1) \o <<LF, Kw("T_NEXT"), LF>> >>

OpenForScripts ==
    [k \in 1..Len(OpenForCases) |->
        Assign("i", 5) \o <<Op(":")>> \o Assign("x", 0) \o <<LF>>
            \o If(<<Nm(<<"0">>)>>) \o For("i", 3) \o OpenForCases[k]]

(* The strings given to TRIM$() *)
TrimInputs ==
    << <<>>, <<" ">>, <<" ", "\t", " ">>, <<"a">>, <<" ", "a">>, <<"a", " ">>,
       <<" ", "a", " ">>, <<"a", "b">>, <<"a", "b", " ", "\t">>, <<" ", " ", "a", "b">>,
       <<"a", " ", "b">>, <<" ", "a", " ", " ", "b", "\t", " ">>, <<"\t", "a", " ", " ">> >>

(* y$ = TRIM$("...") *)
TrimScripts ==
    [k \in 1..Len(TrimInputs) |->
        <<Id(<<"y","$">>), Op("="), Id(<<"T","R","I","M","$">>), Op("("), St(TrimInputs[k]),
          Op(")"), LF>>]

(* The sources that fail on a line longer than the buffer of the excerpt:
   1   PRINT(novar, "aaa...a", "bbbbbbbbbb")       MAX_ERROR_TEXT - 10
                                                   times a
   2   x = 1 : GOTO nowhere                                             *)
ErrScripts ==
    << <<Id(<<"P","R","I","N","T">>), Op("("), Id(<<"n","o","v","a","r">>), Op(","),
         St([j \in 1..(MAX_ERROR_TEXT - 10) |-> "a"]), Op(","),
         St([j \in 1..10 |-> "b"]), Op(")"), LF>>,
       <<Id(<<"x">>), Op("="), Nm(<<"1">>), Op(":"), Kw("T_GOTO"),
         Id(<<"n","o","w","h","e","r","e">>), LF>> >>

(* The sources that assign and read the variables x and y$:
   1   X = 1 : y$ = "s"
   2   x = "t" : Y$ = 2
   3   y$ = x : x = y$ & "z"
   4   x = 9 : x = 1 / 0 : y$ = "n"
   5   PRINT(x, y$)                                                    *)
VarScripts ==
    << <<Id(<<"X">>), Op("="), Nm(<<"1">>), Op(":"), Id(<<"y","$">>), Op("="), St(<<"s">>), LF>>,
       <<Id(<<"x">>), Op("="), St(<<"t">>), Op(":"), Id(<<"Y","$">>), Op("="), Nm(<<"2">>), LF>>,
       <<Id(<<"y","$">>), Op("="), Id(<<"x">>), Op(":"),
         Id(<<"x">>), Op("="), Id(<<"y","$">>), Op("&"), St(<<"z">>), LF>>,
       <<Id(<<"x">>), Op("="), Nm(<<"9">>), Op(":"),
         Id(<<"x">>), Op("="), Nm(<<"1">>), Op("/"), Nm(<<"0">>), Op(":"),
         Id(<<"y","$">>), Op("="), St(<<"n">>), LF>>,
       <<Id(<<"P","R","I","N","T">>), Op("("), Id(<<"x">>), Op(","), Id(<<"y","$">>), Op(")"), LF>> >>

(* Every source the host holds, and where each group starts in it *)
Sources ==
    Scripts \o ForScripts \o LabelScripts \o OnScripts \o HaltScripts \o CompScripts
        \o ArithScripts \o DivScripts \o RoundScripts \o ErrScripts \o TrimScripts
        \o IfScripts \o SkipScripts \o MissScripts \o RelScripts \o CbScripts
        \o OpenForScripts
        \o CallScripts \o VarScripts

ForAt(k) == Len(Scripts) + k

StepAt(k) == ForAt(Len(ForCases)) + k

StopMovesAt == StepAt(Len(StepCases)) + 1

LabelsAt(k) == StopMovesAt + k

OnAt(k) == LabelsAt(Len(LabelScripts)) + k

HaltAt(k) == OnAt(Len(OnCases)) + k

CompAt(k) == HaltAt(Len(HaltScripts)) + k

ArithAt(k) == CompAt(Len(CompScripts)) + k

DivAt(k) == ArithAt(Len(ArithScripts)) + k

RoundAt(k) == DivAt(Len(DivScripts)) + k

ErrAt(k) == RoundAt(Len(RoundScripts)) + k

TrimAt(k) == ErrAt(Len(ErrScripts)) + k

IfAt(k) == TrimAt(Len(TrimScripts)) + k

SkipAt(k) == IfAt(Len(IfScripts)) + k

MissAt(k) == SkipAt(Len(SkipScripts)) + k

RelAt(k) == MissAt(Len(MissScripts)) + k

CbAt(k) == RelAt(Len(RelScripts)) + k

OpenForAt(k) == CbAt(Len(CbScripts)) + k

LangEnd == OpenForAt(Len(OpenForScripts))

CallAt(k) == LangEnd + k

LangScripts == (Len(Scripts) + 1)..LangEnd

HostScripts == CallAt(1)..CallAt(Len(CallScripts))

VarAt(k) == CallAt(Len(CallScripts)) + k

VarRuns == VarAt(1)..VarAt(Len(VarScripts))


(* ------------------------------------------------------------------ *)
(* Lookup tables: a chained hash table finds the entry of a name that   *)
(* was inserted first, so a table is the sequence of its entries in    *)
(* insertion order.                                                    *)
(* ------------------------------------------------------------------ *)
find_var(tbl, name) ==
    IF \E k \in 1..Len(tbl) : tbl[k].name = name
    THEN CHOOSE k \in 1..Len(tbl) :
            tbl[k].name = name /\ \A j \in 1..(k - 1) : tbl[j].name # name
    ELSE 0

put_var(tbl, val) == Append(tbl, val)

(* ------------------------------------------------------------------ *)
(* Helpers for weak typing                                             *)
(* ------------------------------------------------------------------ *)
(* par_as_int() as it would be if every string counted as 0 *)
par_as_int_zero(par) == IF par.type = "mu_int" THEN par.i ELSE 0

par_as_int(par) == IF par.type = "mu_int" THEN par.i ELSE atoi(par.s)

(* par_as_str() as it would be if it left out the sign *)
par_as_str_unsigned(par) ==
    IF par.type = "mu_str" THEN par.s
    ELSE IF par.i < 0 THEN Tail(sprintf_d(par.i))
    ELSE sprintf_d(par.i)

par_as_str(par) == IF par.type = "mu_str" THEN par.s ELSE sprintf_d(par.i)

(* The characters of the model in ASCII order, for strcmp() *)
Ascii == <<"\t", "\n", "\r", " ", "$", "+", "-">> \o Digits \o Upper \o <<"[", "]", "_">> \o Lower

RECURSIVE strcmp_from(_, _, _)
strcmp_from(a, b, k) ==
    IF k > Len(a) /\ k > Len(b) THEN 0
    ELSE IF k > Len(a) THEN 0 - 1
    ELSE IF k > Len(b) THEN 1
    ELSE IF a[k] = b[k] THEN strcmp_from(a, b, k + 1)
    ELSE IF IndexIn(Ascii, a[k]) < IndexIn(Ascii, b[k]) THEN 0 - 1 ELSE 1

strcmp(a, b) == strcmp_from(a, b, 1)

(* ------------------------------------------------------------------ *)
(* Accessor functions                                                  *)
(* ------------------------------------------------------------------ *)
(* mu_set_num() as it would be if it added an entry at every call *)
mu_set_num_append(mm, name, num) ==
    [mm EXCEPT !.vars = put_var(@, [name |-> name, type |-> "mu_int", i |-> num, s |-> <<>>])]

mu_set_num(mm, name, num) ==
    LET k == find_var(mm.vars, name) IN
    IF k = 0
    THEN [mm EXCEPT !.vars = put_var(@, [name |-> name, type |-> "mu_int", i |-> num, s |-> <<>>])]
    ELSE [mm EXCEPT !.vars[k] = [name |-> name, type |-> "mu_int", i |-> num, s |-> <<>>]]

mu_set_str(mm, name, val) ==
    LET k == find_var(mm.vars, name) IN
    IF k = 0
    THEN [mm EXCEPT !.vars = put_var(@, [name |-> name, type |-> "mu_str", i |-> 0, s |-> val])]
    ELSE [mm EXCEPT !.vars[k] = [name |-> name, type |-> "mu_str", i |-> 0, s |-> val]]

mu_get_num(mm, name) ==
    LET k == find_var(mm.vars, name) IN
    IF k = 0 THEN 0
    ELSE IF mm.vars[k].type = "mu_str" THEN atoi(mm.vars[k].s)
    ELSE mm.vars[k].i

(* mu_get_str() as it would be if it returned NULL for an integer *)
mu_get_str_typed(mm, name) ==
    LET k == find_var(mm.vars, name) IN
    IF k = 0 \/ mm.vars[IF k = 0 THEN 1 ELSE k].type = "mu_int"
    THEN [m |-> mm, null |-> TRUE, s |-> <<>>]
    ELSE [m |-> mm, null |-> FALSE, s |-> mm.vars[k].s]

(* mu_get_str(): the interpreter after the call, which turns an        *)
(* integer variable into a string one, and the string returned, if it  *)
(* is not NULL (it is for an undefined name)                            *)
mu_get_str(mm, name) ==
    LET k == find_var(mm.vars, name) IN
    IF k = 0 THEN [m |-> mm, null |-> TRUE, s |-> <<>>]
    ELSE IF mm.vars[k].type = "mu_int"
    THEN [m |-> [mm EXCEPT !.vars[k] = [name |-> name, type |-> "mu_str", i |-> 0,
                                        s |-> sprintf_d(mm.vars[k].i)]],
          null |-> FALSE, s |-> sprintf_d(mm.vars[k].i)]
    ELSE [m |-> mm, null |-> FALSE, s |-> mm.vars[k].s]

(* mu_add_func() as it would be if it added an entry at every call *)
mu_add_func_append(mm, name, fun) ==
    [mm EXCEPT !.funcs = put_var(@, [name |-> name, fun |-> fun])]

mu_add_func(mm, name, fun) ==
    LET k == find_var(mm.funcs, name) IN
    IF k = 0 THEN [mm EXCEPT !.funcs = put_var(@, [name |-> name, fun |-> fun])]
    ELSE [mm EXCEPT !.funcs[k].fun = fun]

(* ------------------------------------------------------------------ *)
(* struct musl after mu_create()                                       *)
(* ------------------------------------------------------------------ *)
StdFuns == << <<<<"v","a","l">>, "m_val">>,
              <<<<"s","t","r","$">>, "m_str">>,
              <<<<"l","e","n">>, "m_len">>,
              <<<<"t","r","i","m","$">>, "m_trim">> >>

RECURSIVE add_funs(_, _, _)
add_funs(mm, list, k) ==
    IF k > Len(list) THEN mm
    ELSE add_funs(mu_add_func(mm, list[k][1], list[k][2]), list, k + 1)

add_stdfuns(mm) == add_funs(mm, StdFuns, 1)

mu_create ==
    add_stdfuns(
      [s |-> NULL, last |-> UNINIT, start |-> NULL, token |-> <<>>,
       vars |-> <<>>, labels |-> <<>>, funcs |-> <<>>,
       argc |-> 0, argv |-> <<>>,
       active |-> 1,
       gosub_stack |-> [k \in 0..(MAX_GOSUB - 1) |-> UNINIT], gosub_sp |-> 0,
       for_stack |-> [k \in 0..(MAX_FOR - 1) |-> UNINIT], for_sp |-> 0,
       on_error |-> 0, error_msg |-> "", error_text |-> NULL])

(* The functions main() registers before it runs the first script *)
MainFuns == << <<f_print, "my_print">>, <<f_call, "my_call">>, <<f_halt, "my_halt">> >>

(* ------------------------------------------------------------------ *)
(* Evaluation context: the machine state threaded through the parser,   *)
(* with the transient results of the routine that ran last             *)
(*   st   "ok", "throw" (mu_throw was called), "invoke" (fparams is     *)
(*        about to invoke an extension function that calls back),      *)
(*        "stmt" (stmt is about to call stmt)                          *)
(*   t    the token kind tokenize() returned                           *)
(*   v    the value an expression routine returned                     *)
(*   r    the pointer stmt() returned                                  *)
(*   text the sources in memory                                        *)
(* ------------------------------------------------------------------ *)
NoInv == [stmt |-> "", name |-> <<>>, fname |-> <<>>, params |-> <<>>]

Ctx(mm, cs, gg, rr) ==
    [m |-> mm, cs |-> cs, g |-> gg, rv |-> rr, pc |-> "", st |-> "ok", t |-> "T_END",
     v |-> NoVal, r |-> NULL, inv |-> NoInv, lm |-> TRUE, push |-> FALSE,
     text |-> Sources]

Ok(c) == c.st = "ok"

(* mu_throw(): lines 254-261; g.ev.msg records the message it was      *)
(* given, an empty one as "(empty)"                                    *)
mu_throw(c, msg) ==
    IF ~Ok(c) THEN c
    ELSE [c EXCEPT !.st = "throw", !.m.error_msg = msg,
                   !.g.ev.msg = IF msg = "" THEN "(empty)" ELSE msg]

SrcLen(c) == IF c.m.s.src \in 1..Len(c.text) THEN Len(c.text[c.m.s.src]) ELSE 0

tok_reset(c) ==
    IF ~Ok(c) THEN c
    ELSE IF c.m.last # NULL THEN [c EXCEPT !.m.s = c.m.last] ELSE c

tokenize(c) ==
    IF ~Ok(c) THEN c
    ELSE IF c.m.s = NULL THEN [c EXCEPT !.t = "T_END"]
    ELSE IF c.m.s.pos > SrcLen(c)
         THEN [c EXCEPT !.t = "T_END", !.m.last = c.m.s]
    ELSE LET k == c.text[c.m.s.src][c.m.s.pos] IN
         [c EXCEPT !.t = k.t,
                   !.m.last = c.m.s,
                   !.m.s = Ptr(c.m.s.src, c.m.s.pos + 1),
                   !.m.token = IF k.t = "T_IDENT" THEN LowerStr(k.tok)
                               ELSE IF k.t \in TextKinds THEN k.tok
                               ELSE @]

(* ------------------------------------------------------------------ *)
(* The lexical analyser on the characters of a source.  tokenize()     *)
(* above is what it yields for the sources given as tokens; here a     *)
(* source is a sequence of characters, followed in memory by the       *)
(* terminator NUL, and the pos of a pointer counts characters.         *)
(* ------------------------------------------------------------------ *)
NUL == ""

TokChars == <<"a", "1", " ", "\n", "#", "\\", "\"", "+", "R">>

(* Every source of n characters of TokChars *)
RECURSIVE TextsOf(_)
TextsOf(n) ==
    IF n = 0 THEN << <<>> >>
    ELSE LET shorter == TextsOf(n - 1) IN
         [k \in 1..(Len(shorter) * Len(TokChars)) |->
             Append(shorter[((k - 1) \div Len(TokChars)) + 1],
                    TokChars[((k - 1) % Len(TokChars)) + 1])]

RECURSIVE TextsUpTo(_)
TextsUpTo(n) == IF n = 0 THEN TextsOf(0) ELSE TextsUpTo(n - 1) \o TextsOf(n)

(* Longer sources:
     IF x1 THEN \        (continued on the next line)
      y$="a b" # c
     r'\n'+_A1 <> 12
       # c               (a comment that ends the source)
     Next'a\'b'                                                         *)
LongTexts ==
    << <<"I","F"," ","x","1"," ","T","H","E","N"," ","\\"," ","\n"," ","y","$","=",
         "\"","a"," ","b","\""," ","#"," ","c","\n">>,
       <<"r","'","\\","n","'","+","_","A","1"," ","<",">"," ","1","2","\n">>,
       <<" "," ","#"," ","c">>,
       <<"N","e","x","t","'","a","\\","'","b","'">> >>

TokTexts == TextsUpTo(MaxText) \o LongTexts

isalpha(ch) == IndexIn(Upper, ch) > 0 \/ IndexIn(Lower, ch) > 0

OPERATORS == {"=", "<", ">", "~", "+", "-", "*", "/", "%", "&", "(", ")", "[", "]", ",", ":"}

(* m->s[k] *)
CharAt(c, k) ==
    LET txt == TokTexts[c.m.s.src] IN
    IF c.m.s.pos + k <= Len(txt) THEN txt[c.m.s.pos + k] ELSE NUL

(* m->s += n *)
Skip(c, n) == [c EXCEPT !.m.s = Ptr(c.m.s.src, c.m.s.pos + n)]

(* return kind, out of any loop of tokenize() *)
Token(c, kind) == [c EXCEPT !.t = kind, !.st = "token"]

(* iskeyword(): the kind of the keyword, T_IDENT for any other name *)
iskeyword(tok) ==
    IF \E kind \in DOMAIN keywords : keywords[kind] = tok
    THEN CHOOSE kind \in DOMAIN keywords : keywords[kind] = tok
    ELSE "T_IDENT"

(* The comment: lines 303-308 *)
RECURSIVE comment(_)
comment(c) ==
    IF CharAt(c, 0) = "\n" THEN Token(c, "T_LF")
    ELSE IF CharAt(c, 0) = NUL THEN Token(Skip(c, 1), "T_END")
    ELSE comment(Skip(c, 1))

(* The loop of the continuation, after its first m->s++: lines 311-313 *)
RECURSIVE continued(_)
continued(c) ==
    IF CharAt(c, 0) # NUL /\ CharAt(c, 0) # "\n" /\ isspace(CharAt(c, 0))
    THEN continued(Skip(c, 1))
    ELSE c

(* From the label whitespace: to the start of a lexeme: lines 298-318 *)
RECURSIVE whitespace(_)
whitespace(c) ==
    IF isspace(CharAt(c, 0))
    THEN IF CharAt(c, 0) = "\n" THEN Token(Skip(c, 1), "T_LF") ELSE whitespace(Skip(c, 1))
    ELSE IF CharAt(c, 0) = "#" THEN comment(c)
    ELSE IF CharAt(c, 0) = "\\"
         THEN LET c1 == continued(Skip(c, 1)) IN
              IF CharAt(c1, 0) # "\n" THEN mu_throw(c1, "Bad '\\' at end of line")
              ELSE whitespace(Skip(c1, 1))
    ELSE c

(* The loop of a quoted string, t being the characters copied so far:  *)
(* lines 327-344                                                       *)
RECURSIVE quoted(_, _, _)
quoted(c, term, t) ==
    IF CharAt(c, 0) = term THEN Token([Skip(c, 1) EXCEPT !.m.token = t], "T_STRING")
    ELSE IF CharAt(c, 0) = NUL THEN mu_throw(c, "Unterminated string")
    ELSE IF Len(t) > TOK_SIZE - 2 THEN mu_throw(c, "Token too long")
    ELSE IF CharAt(c, 0) = "\\"
         THEN CASE CharAt(c, 1) = NUL -> mu_throw(c, "Unterminated string")
                [] CharAt(c, 1) = "n" -> quoted(Skip(c, 2), term, Append(t, "\n"))
                [] CharAt(c, 1) = "r" -> quoted(Skip(c, 2), term, Append(t, "\r"))
                [] CharAt(c, 1) = "t" -> quoted(Skip(c, 2), term, Append(t, "\t"))
                [] OTHER -> quoted(Skip(c, 2), term, Append(t, CharAt(c, 1)))
    ELSE quoted(Skip(c, 1), term, Append(t, CharAt(c, 0)))

(* The loop of a raw string: lines 349-355 *)
RECURSIVE raw(_, _, _)
raw(c, term, t) ==
    IF CharAt(c, 0) = term THEN Token([Skip(c, 1) EXCEPT !.m.token = t], "T_STRING")
    ELSE IF CharAt(c, 0) = NUL THEN mu_throw(c, "Unterminated string")
    ELSE IF Len(t) > TOK_SIZE - 2 THEN mu_throw(c, "Token too long")
    ELSE raw(Skip(c, 1), term, Append(t, CharAt(c, 0)))

(* The loop of a name: lines 362-367 *)
RECURSIVE name_loop(_, _)
name_loop(c, t) ==
    IF isalpha(CharAt(c, 0)) \/ isdigit(CharAt(c, 0)) \/ CharAt(c, 0) \in {"_", "$"}
    THEN IF Len(t) > TOK_SIZE - 2 THEN mu_throw(c, "Token too long")
         ELSE name_loop(Skip(c, 1), Append(t, tolower(CharAt(c, 0))))
    ELSE Token([c EXCEPT !.m.token = t], iskeyword(t))

(* The loop of a number: lines 371-375 *)
RECURSIVE number_loop(_, _)
number_loop(c, t) ==
    IF isdigit(CharAt(c, 0))
    THEN IF Len(t) > TOK_SIZE - 2 THEN mu_throw(c, "Token too long")
         ELSE number_loop(Skip(c, 1), Append(t, CharAt(c, 0)))
    ELSE Token([c EXCEPT !.m.token = t], "T_NUMBER")

(* From the second m->last = m->s on: lines 320-379 *)
lexeme(c) ==
    IF c.st # "ok" THEN c
    ELSE LET c1 == [c EXCEPT !.m.last = c.m.s]
             ch == CharAt(c, 0)
         IN  CASE ch = NUL -> Token(c1, "T_END")
               [] ch \in {"\"", "'"} -> quoted(Skip(c1, 1), ch, <<>>)
               [] tolower(ch) = "r" /\ CharAt(c, 1) \in {"\"", "'"} ->
                     raw(Skip(c1, 2), CharAt(c, 1), <<>>)
               [] isalpha(ch) \/ ch = "_" -> name_loop(c1, <<>>)
               [] isdigit(ch) -> number_loop(c1, <<>>)
               [] ch \in OPERATORS -> Token(Skip(c1, 1), ch)
               [] OTHER -> mu_throw(c1, "Unknown token")

Lexed(c) == IF c.st = "token" THEN [c EXCEPT !.st = "ok"] ELSE c

(* tokenize() as it would be without the m->last = m->s before the     *)
(* whitespace                                                          *)
tokenize_chars_late(c) ==
    IF ~Ok(c) THEN c
    ELSE IF c.m.s = NULL THEN [c EXCEPT !.t = "T_END"]
    ELSE Lexed(lexeme(whitespace(c)))

(* tokenize(): lines 292-380 *)
tokenize_chars(c) ==
    IF ~Ok(c) THEN c
    ELSE IF c.m.s = NULL THEN [c EXCEPT !.t = "T_END"]
    ELSE Lexed(lexeme(whitespace([c EXCEPT !.m.last = c.m.s])))

(* ------------------------------------------------------------------ *)
(* Extension functions that do not call back into the script           *)
(* ------------------------------------------------------------------ *)
mu_par_num(c, n) ==
    IF n >= c.m.argc THEN mu_throw(c, "Too few parameters to function")
    ELSE IF c.m.argv[n + 1].type # "mu_int" THEN mu_throw(c, "Parameter must be numeric")
    ELSE [c EXCEPT !.v = V_int(c.m.argv[n + 1].i)]

mu_par_str(c, n) ==
    IF n >= c.m.argc THEN mu_throw(c, "Too few parameters to function")
    ELSE IF c.m.argv[n + 1].type # "mu_str" THEN mu_throw(c, "Parameter must be a string")
    ELSE [c EXCEPT !.v = V_str(c.m.argv[n + 1].s)]

RECURSIVE PrintLine(_, _)
PrintLine(argv, k) ==
    IF k > Len(argv) THEN <<>>
    ELSE par_as_str(argv[k]) \o PrintLine(argv, k + 1)

my_print(c) ==
    [c EXCEPT !.g.out = Append(@, PrintLine(c.m.argv, 1)), !.v = V_int(c.m.argc)]

mu_halt(mm) == [mm EXCEPT !.s = NULL, !.last = NULL]

my_halt(c) == [c EXCEPT !.m = mu_halt(@), !.v = V_int(0), !.g.halted = Len(c.g.out)]

m_val(c) == LET p == mu_par_str(c, 0) IN IF Ok(p) THEN [p EXCEPT !.v = V_int(atoi(p.v.s))] ELSE p

m_str(c) == LET p == mu_par_num(c, 0) IN IF Ok(p) THEN [p EXCEPT !.v = V_str(sprintf_d(p.v.i))] ELSE p

m_len(c) == LET p == mu_par_str(c, 0) IN IF Ok(p) THEN [p EXCEPT !.v = V_int(Len(p.v.s))] ELSE p

(* The loop of m_trim() that looks for the last character to keep,    *)
(* from the last character down to the second: lines 1408-1412         *)
RECURSIVE trim_loop(_, _)
trim_loop(str, k) ==
    IF k <= 1 THEN str
    ELSE IF ~isspace(str[k]) THEN SubSeq(str, 1, k)
    ELSE trim_loop(str, k - 1)

(* m_trim(): lines 1395-1414.  For an empty copy the loop starts one   *)
(* character before the buffer and ends at once.                       *)
m_trim(c) ==
    LET p == mu_par_str(c, 0) IN
    IF Ok(p)
    THEN LET str == SubSeq(p.v.s, SkipSpace(p.v.s, 1), Len(p.v.s))
         IN  [p EXCEPT !.v = V_str(trim_loop(str, Len(str)))]
    ELSE p

(* rv = v->v.fun(m, m->argc, m->argv) for the functions above *)
CallInline(c, fun) ==
    CASE fun = "my_print" -> my_print(c)
      [] fun = "my_halt" -> my_halt(c)
      [] fun = "m_val" -> m_val(c)
      [] fun = "m_str" -> m_str(c)
      [] fun = "m_len" -> m_len(c)
      [] fun = "m_trim" -> m_trim(c)

(* ------------------------------------------------------------------ *)
(* Expression evaluator                                                *)
(* ------------------------------------------------------------------ *)
(* snprintf(name, TOK_SIZE, "%s[%s]", buf, index) *)
IndexedName(buf, idx) ==
    LET full == buf \o <<"[">> \o idx \o <<"]">> IN
    IF Len(full) > TOK_SIZE - 1 THEN SubSeq(full, 1, TOK_SIZE - 1) ELSE full

NotLeftmost(c) == IF Ok(c) THEN [c EXCEPT !.lm = FALSE] ELSE c

RECURSIVE parse(_, _)
RECURSIVE fparams_loop(_, _, _, _)
RECURSIVE or_loop(_, _), and_loop(_, _), cat_loop(_), add_loop(_, _), mul_loop(_, _)

(* do { rhs = and_expr(m); n = n | par_as_int(&rhs); } while(tokenize(m) == T_OR) *)
or_loop(c, n) ==
    LET while(c2, n2) ==
            IF ~Ok(c2) THEN c2
            ELSE IF c2.t = "T_OR" THEN or_loop(c2, n2)
            ELSE [c2 EXCEPT !.v = V_int(n2)]
        rhs(c1) == while(tokenize(c1), BitOr(n, par_as_int(c1.v)))
    IN  rhs(parse("and_expr", c))

(* expr() after its first and_expr() has returned c.v *)
expr_rest(c) ==
    LET c1 == tokenize(c) IN
    IF ~Ok(c1) THEN c1
    ELSE IF c1.t = "T_OR" THEN tok_reset(or_loop(NotLeftmost(c1), par_as_int(c.v)))
    ELSE tok_reset(c1)

expr(c) == expr_rest(parse("and_expr", c))

and_loop(c, n) ==
    LET while(c2, n2) ==
            IF ~Ok(c2) THEN c2
            ELSE IF c2.t = "T_AND" THEN and_loop(c2, n2)
            ELSE [c2 EXCEPT !.v = V_int(n2)]
        rhs(c1) == while(tokenize(c1), BitAnd(n, par_as_int(c1.v)))
    IN  rhs(parse("not_expr", c))

and_rest(c) ==
    LET c1 == tokenize(c) IN
    IF ~Ok(c1) THEN c1
    ELSE IF c1.t = "T_AND" THEN tok_reset(and_loop(NotLeftmost(c1), par_as_int(c.v)))
    ELSE tok_reset(c1)

and_expr(c) == and_rest(parse("not_expr", c))

not_expr(c) ==
    LET c1 == tokenize(c) IN
    IF ~Ok(c1) THEN c1
    ELSE IF c1.t = "T_NOT"
         THEN LET negate(c2) ==
                      IF ~Ok(c2) THEN c2
                      ELSE [c2 EXCEPT !.v = V_int(IF par_as_int(c2.v) = 0 THEN 1 ELSE 0)]
              IN  negate(parse("comp_expr", NotLeftmost(c1)))
    ELSE parse("comp_expr", tok_reset(c1))

Bool(b) == IF b THEN 1 ELSE 0

(* The comparison of comp_expr(): the type of the left operand decides *)
Compare(t, lhs, rhs) ==
    IF lhs.type = "mu_str"
    THEN LET r == strcmp(lhs.s, par_as_str(rhs)) IN
         Bool((t = "=" /\ r = 0) \/ (t = "<" /\ r < 0) \/ (t = ">" /\ r > 0)
              \/ (t = "~" /\ r # 0))
    ELSE LET a == lhs.i
             b == par_as_int(rhs)
         IN  Bool((t = "=" /\ a = b) \/ (t = "<" /\ a < b) \/ (t = ">" /\ a > b)
                  \/ (t = "~" /\ a # b))

comp_rest(c) ==
    LET c1 == tokenize(c) IN
    IF ~Ok(c1) THEN c1
    ELSE IF c1.t \in {"=", "<", ">", "~"}
         THEN LET rhs(c2) ==
                      IF ~Ok(c2) THEN c2
                      ELSE [c2 EXCEPT !.v = V_int(Compare(c1.t, c.v, c2.v))]
              IN  rhs(parse("cat_expr", NotLeftmost(c1)))
    ELSE tok_reset(c1)

comp_expr(c) == comp_rest(parse("cat_expr", c))

(* The do-while loop over '&' of cat_expr(), c.v being lhs *)
cat_loop(c) ==
    LET while(c2, t) ==
            IF ~Ok(c2) THEN c2
            ELSE IF c2.t = "&" THEN cat_loop([c2 EXCEPT !.v = t])
            ELSE [c2 EXCEPT !.v = t]
        rhs(c1) == while(tokenize(c1), V_str(par_as_str(c.v) \o par_as_str(c1.v)))
    IN  rhs(parse("add_expr", c))

cat_rest(c) ==
    LET c1 == tokenize(c) IN
    IF ~Ok(c1) THEN c1
    ELSE IF c1.t = "&" THEN tok_reset(cat_loop(NotLeftmost(c1)))
    ELSE tok_reset(c1)

cat_expr(c) == cat_rest(parse("add_expr", c))

(* c.t is the operator read last *)
add_loop(c, n) ==
    LET while(c2, n2) ==
            IF ~Ok(c2) THEN c2
            ELSE IF c2.t \in {"+", "-"} THEN add_loop(c2, n2)
            ELSE [c2 EXCEPT !.v = V_int(n2)]
        rhs(c1) == while(tokenize(c1),
                         IF c.t = "+" THEN Add32(n, par_as_int(c1.v))
                         ELSE Sub32(n, par_as_int(c1.v)))
    IN  rhs(parse("mul_expr", c))

add_rest(c) ==
    LET c1 == tokenize(c) IN
    IF ~Ok(c1) THEN c1
    ELSE IF c1.t \in {"+", "-"} THEN tok_reset(add_loop(NotLeftmost(c1), par_as_int(c.v)))
    ELSE tok_reset(c1)

add_expr(c) == add_rest(parse("mul_expr", c))

(* The loop of mul_expr() as it would be if a zero divisor were let    *)
(* through and left the dividend as it is                              *)
mul_loop_unchecked(c, n) ==
    LET while(c2, n2) ==
            IF c2.t \in {"*", "/", "%"} THEN mul_loop(c2, n2)
            ELSE [c2 EXCEPT !.v = V_int(n2)]
        rhs(c1, r) ==
            IF ~Ok(c1) THEN c1
            ELSE while(tokenize(c1),
                       IF c.t = "*" THEN Mul32(n, r)
                       ELSE IF r = 0 THEN n
                       ELSE IF c.t = "/" THEN CDiv(n, r)
                       ELSE CMod(n, r))
        operand(c1) == rhs(c1, par_as_int(c1.v))
    IN  operand(parse("uexpr", c))

mul_loop(c, n) ==
    LET while(c2, n2) ==
            IF c2.t \in {"*", "/", "%"} THEN mul_loop(c2, n2)
            ELSE [c2 EXCEPT !.v = V_int(n2)]
        rhs(c1, r) ==
            IF ~Ok(c1) THEN c1
            ELSE IF c.t # "*" /\ r = 0 THEN mu_throw(c1, "Divide by zero")
            ELSE while(tokenize(c1),
                       IF c.t = "*" THEN Mul32(n, r)
                       ELSE IF c.t = "/" THEN CDiv(n, r)
                       ELSE CMod(n, r))
        operand(c1) == rhs(c1, par_as_int(c1.v))
    IN  operand(parse("uexpr", c))

mul_rest(c) ==
    LET c1 == tokenize(c) IN
    IF ~Ok(c1) THEN c1
    ELSE IF c1.t \in {"*", "/", "%"} THEN tok_reset(mul_loop(NotLeftmost(c1), par_as_int(c.v)))
    ELSE tok_reset(c1)

mul_expr(c) == mul_rest(parse("uexpr", c))

uexpr(c) ==
    LET c1 == tokenize(c) IN
    IF ~Ok(c1) THEN c1
    ELSE IF c1.t = "-"
         THEN LET negate(c2) ==
                      IF ~Ok(c2) THEN c2 ELSE [c2 EXCEPT !.v = V_int(Neg32(par_as_int(c2.v)))]
              IN  negate(parse("atom", NotLeftmost(c1)))
    ELSE IF c1.t # "+" THEN parse("atom", tok_reset(c1))
    ELSE parse("atom", c1)

(* The loop of fparams() that releases the arguments after the call:   *)
(* lines 790-792.  It goes through the first m->argc elements of the   *)
(* array of this call.                                                 *)
fparams_free(c, params) ==
    IF ~Ok(c) THEN c
    ELSE [c EXCEPT !.g.ev.rel = Append(@, [params |-> params, argc |-> c.m.argc])]

(* fparams() from the lookup of the function on: i arguments are in params *)
fparams_call(c, name, params, lm0) ==
    LET k == find_var(c.m.funcs, name) IN
    IF k = 0 \/ c.m.funcs[IF k = 0 THEN 1 ELSE k].fun = "NULL"
    THEN mu_throw(c, "Call to undefined function")
    ELSE LET c1 == [c EXCEPT !.m.argc = Len(params), !.m.argv = params, !.lm = lm0]
             fun == c.m.funcs[k].fun
         IN  IF c1.m.active = 0 THEN fparams_free([c1 EXCEPT !.v = V_int(0)], params)
             ELSE IF fun # "my_call" THEN fparams_free(CallInline(c1, fun), params)
             ELSE IF lm0 THEN [c1 EXCEPT !.st = "invoke",
                                         !.inv = [NoInv EXCEPT !.fname = name, !.params = params]]
             ELSE [c1 EXCEPT !.st = "unmodelled"]

(* The loop of fparams() as it would be without the test of i *)
fparams_loop_unchecked(c, name, params, lm0) ==
    LET c1 == tokenize(c)
        more(c3, args) ==
            CASE ~Ok(c3) -> c3
              [] Ok(c3) /\ c3.t = ")" -> fparams_call(c3, name, args, lm0)
              [] Ok(c3) /\ c3.t = "," -> fparams_loop(c3, name, args, lm0)
              [] OTHER -> mu_throw(c3, "Expected ')'")
        arg(c2) == more(tokenize(c2), Append(params, c2.v))
    IN  CASE ~Ok(c1) -> c1
          [] Ok(c1) /\ c1.t = ")" -> fparams_call(c1, name, params, lm0)
          [] OTHER -> arg(parse("expr", NotLeftmost(tok_reset(c1))))

fparams_loop(c, name, params, lm0) ==
    LET c1 == tokenize(c)
        more(c3, args) ==
            CASE ~Ok(c3) -> c3
              [] Ok(c3) /\ c3.t = ")" -> fparams_call(c3, name, args, lm0)
              [] Ok(c3) /\ c3.t = "," -> fparams_loop(c3, name, args, lm0)
              [] OTHER -> mu_throw(c3, "Expected ')'")
        arg(c2) == more(tokenize(c2), Append(params, c2.v))
    IN  CASE ~Ok(c1) -> c1
          [] Ok(c1) /\ c1.t = ")" -> fparams_call(c1, name, params, lm0)
          [] Ok(c1) /\ c1.t # ")" /\ Len(params) >= MAX_PARAMS ->
                mu_throw(c1, "Too many parameters to function")
          [] OTHER -> arg(parse("expr", NotLeftmost(tok_reset(c1))))

fparams(name, c) == fparams_loop(c, name, <<>>, c.lm)

(* atom() from find_var(m->vars, name) on *)
atom_var(c, name) ==
    LET k == find_var(c.m.vars, name) IN
    IF ~Ok(c) THEN c
    ELSE IF k = 0
         THEN IF c.m.active = 0 THEN [c EXCEPT !.v = V_int(0)]
              ELSE mu_throw(c, "Read from undefined variable")
    ELSE [c EXCEPT !.v = IF c.m.vars[k].type = "mu_int" THEN V_int(c.m.vars[k].i)
                         ELSE V_str(c.m.vars[k].s)]

atom(c) ==
    LET c1 == tokenize(c) IN
    IF ~Ok(c1) THEN c1
    ELSE IF c1.t = "("
         THEN LET close(c2) ==
                      IF ~Ok(c2) THEN c2
                      ELSE IF c2.t # ")" THEN mu_throw(c2, "Missing ')'")
                      ELSE c2
              IN  close(tokenize(parse("expr", NotLeftmost(c1))))
    ELSE IF c1.t = "T_IDENT"
         THEN LET buf == c1.m.token
                  c2 == tokenize(c1)
              IN  IF c2.t = "(" THEN fparams(buf, c2)
                  ELSE IF c2.t = "["
                       THEN LET close(c4, idx) ==
                                    IF ~Ok(c4) THEN c4
                                    ELSE IF c4.t # "]" THEN mu_throw(c4, "Missing ']'")
                                    ELSE atom_var(c4, IndexedName(buf, idx))
                                index(c3) == close(tokenize(c3), par_as_str(c3.v))
                            IN  index(parse("expr", NotLeftmost(c2)))
                  ELSE atom_var(tok_reset(c2), buf)
    ELSE IF c1.t = "T_NUMBER" THEN [c1 EXCEPT !.v = V_int(atoi(c1.m.token))]
    ELSE IF c1.t = "T_STRING" THEN [c1 EXCEPT !.v = V_str(c1.m.token)]
    ELSE mu_throw(c1, "Value expected")

(* What the expression routines between atom() and stmt() do after a    *)
(* call that was the first atom of the expression has returned c.v     *)
expr_after_call(c) == expr_rest(and_rest(comp_rest(cat_rest(add_rest(mul_rest(c))))))

(* ------------------------------------------------------------------ *)
(* Statements.  A routine below returns the context with st            *)
(*   "ok"     the statement goes on to the check of what follows it    *)
(*   "ret"    stmt() returned c.r                                      *)
(*   "stmt"   stmt() is about to call stmt()                           *)
(*   "invoke" fparams() is about to invoke CALL()                      *)
(*   "throw"  mu_throw() was called                                    *)
(* ------------------------------------------------------------------ *)
Return(c, ptr) == IF Ok(c) THEN [c EXCEPT !.st = "ret", !.r = ptr] ELSE c

Expect(c, kind, msg) ==
    LET c1 == tokenize(c) IN
    IF ~Ok(c1) THEN c1 ELSE IF c1.t # kind THEN mu_throw(c1, msg) ELSE c1

(* The loop that skips newlines, then tok_reset(m) *)
RECURSIVE skip_lf(_)
skip_lf(c) ==
    LET c1 == tokenize(c) IN
    IF ~Ok(c1) THEN c1 ELSE IF c1.t = "T_LF" THEN skip_lf(c1) ELSE tok_reset(c1)

(* The end of stmt(): a ':' chains another statement *)
stmt_tail(c) ==
    LET c1 == tokenize(c) IN
    IF ~Ok(c1) THEN c1
    ELSE IF c1.t = ":" THEN [skip_lf(c1) EXCEPT !.st = "stmt"]
    ELSE IF c1.t \notin {"T_LF", "T_KEND", "T_END"} THEN mu_throw(c1, "':' or <LF> expected")
    ELSE Return(tok_reset(c1), NULL)

(* stmt_store() as it would be without the tests of m->active *)
stmt_store_always(c, name) ==
    IF ~Ok(c) THEN c
    ELSE IF c.v.type = "mu_str" THEN [c EXCEPT !.m = mu_set_str(@, name, c.v.s)]
    ELSE [c EXCEPT !.m = mu_set_num(@, name, c.v.i)]

(* Assignment and bare call; c.t is T_IDENT or T_LET *)
stmt_store(c, name) ==
    IF ~Ok(c) THEN c
    ELSE IF c.m.active = 0 THEN c
    ELSE IF c.v.type = "mu_str" THEN [c EXCEPT !.m = mu_set_str(@, name, c.v.s)]
    ELSE [c EXCEPT !.m = mu_set_num(@, name, c.v.i)]

Invoking(c, kind, name) ==
    IF c.st = "invoke" THEN [c EXCEPT !.inv.stmt = kind, !.inv.name = name] ELSE c

stmt_assign_rhs(c, name, has_let) ==
    LET c1 == tokenize(c) IN
    IF ~Ok(c1) THEN c1
    ELSE IF c1.t = "="
         THEN stmt_store(Invoking(parse("expr", [c1 EXCEPT !.lm = TRUE]), "assign", name), name)
    ELSE IF ~has_let /\ c1.t = "("
         THEN Invoking(fparams(name, [c1 EXCEPT !.lm = TRUE]), "call", name)
    ELSE c1

stmt_assign(c) ==
    LET c0 == IF c.t = "T_LET" THEN Expect(c, "T_IDENT", "Identifier expected") ELSE c
        buf == c0.m.token
        c1 == tokenize(c0)
    IN  IF ~Ok(c1) THEN c1
        ELSE IF c1.t = "["
             THEN LET index(c2) ==
                          stmt_assign_rhs(Expect(c2, "]", "Missing ']'"),
                                          IndexedName(buf, par_as_str(c2.v)), TRUE)
                  IN  index(parse("expr", NotLeftmost(c1)))
        ELSE stmt_assign_rhs(tok_reset(c1), buf, c.t = "T_LET")

(* stmt_if() as it would be if the condition did not change m->active *)
stmt_if_unconditional(c) ==
    LET save == c.m.active
        body(c3) ==
            IF ~Ok(c3) THEN c3
            ELSE [c3 EXCEPT !.st = "stmt", !.cs = Append(@, [k |-> "if", save |-> save])]
        then(c2) == body(skip_lf(Expect(c2, "T_THEN", "THEN expected")))
    IN  then(parse("expr", NotLeftmost(c)))

(* IF: lines 573-591, up to the call of stmt() for the nested          *)
(* statement; the activation waits on cs with the value of save        *)
stmt_if(c) ==
    LET save == c.m.active
        body(c3) ==
            IF ~Ok(c3) THEN c3
            ELSE [c3 EXCEPT !.st = "stmt", !.cs = Append(@, [k |-> "if", save |-> save])]
        then(c2) == body(skip_lf(Expect(c2, "T_THEN", "THEN expected")))
        cond(c1) ==
            then(IF Ok(c1) /\ c1.m.active # 0 THEN [c1 EXCEPT !.m.active = par_as_int(c1.v)]
                 ELSE c1)
    IN  cond(parse("expr", NotLeftmost(c)))

(* gosub_push() as it would be without the check for overflow *)
gosub_push_unchecked(c) ==
    IF ~Ok(c) THEN c
    ELSE [c EXCEPT !.m.gosub_stack[c.m.gosub_sp] = c.m.s,
                   !.m.gosub_sp = @ + 1,
                   !.g.oob = @ \/ c.m.gosub_sp \notin 0..(MAX_GOSUB - 1),
                   !.g.shadow = Append(@, c.m.s)]

(* m->gosub_stack[m->gosub_sp++] = m->s, after the check for overflow *)
gosub_push(c) ==
    IF ~Ok(c) THEN c
    ELSE IF c.m.gosub_sp >= MAX_GOSUB - 1 THEN mu_throw(c, "GOSUB stack overflow")
    ELSE [c EXCEPT !.m.gosub_stack[c.m.gosub_sp] = c.m.s,
                   !.m.gosub_sp = @ + 1,
                   !.g.oob = @ \/ c.m.gosub_sp \notin 0..(MAX_GOSUB - 1),
                   !.g.shadow = Append(@, c.m.s)]

(* GOTO and GOSUB; t is the keyword *)
goto_target(c) ==
    LET k == find_var(c.m.labels, c.m.token) IN
    IF ~Ok(c) THEN c
    ELSE IF k = 0 THEN mu_throw(c, "GOTO/GOSUB to undefined label")
    ELSE IF c.m.active # 0 THEN Return([c EXCEPT !.g.ev.jump = TRUE], c.m.labels[k].c)
    ELSE c

stmt_goto(c, t) ==
    LET c1 == tokenize(c) IN
    IF ~Ok(c1) THEN c1
    ELSE IF c1.t \notin {"T_IDENT", "T_NUMBER"} THEN mu_throw(c1, "Label expected")
    ELSE IF c1.m.active # 0 /\ t = "T_GOSUB" THEN goto_target(gosub_push(c1))
    ELSE goto_target(c1)

(* gosub_pop() as it would be if it resumed at the oldest frame *)
gosub_pop_first(c) ==
    [c EXCEPT !.m.s = c.m.gosub_stack[0],
              !.m.last = NULL,
              !.m.gosub_sp = @ - 1,
              !.g.oob = @ \/ (c.m.gosub_sp - 1) \notin 0..(MAX_GOSUB - 1),
              !.g.ev.jump = TRUE,
              !.g.shadow = IF Len(@) > 0 THEN SubSeq(@, 1, Len(@) - 1) ELSE @]

(* m->s = m->gosub_stack[--m->gosub_sp] *)
gosub_pop(c) ==
    [c EXCEPT !.m.s = c.m.gosub_stack[c.m.gosub_sp - 1],
              !.m.last = NULL,
              !.m.gosub_sp = @ - 1,
              !.g.oob = @ \/ (c.m.gosub_sp - 1) \notin 0..(MAX_GOSUB - 1),
              !.g.ev.jump = TRUE,
              !.g.shadow = IF Len(@) > 0 THEN SubSeq(@, 1, Len(@) - 1) ELSE @]

stmt_return(c) ==
    IF c.m.gosub_sp <= 0 THEN mu_throw(c, "GOSUB stack underflow")
    ELSE IF c.m.active # 0
         THEN LET c1 == gosub_pop(c) IN
              IF c1.m.s = NULL THEN Return(c1, NULL) ELSE c1
    ELSE c

(* ON expr GOTO/GOSUB label, label ...; u is the keyword after expr, n  *)
(* the value of expr, j the index of the label read next               *)
RECURSIVE on_skip_list(_)
on_skip_list(c) ==
    LET c1 == tokenize(c) IN
    IF ~Ok(c1) THEN c1
    ELSE IF c1.t # "," THEN tok_reset(c1)
    ELSE LET c2 == tokenize(c1) IN
         IF c2.t \notin {"T_IDENT", "T_NUMBER"} THEN mu_throw(c2, "Label expected")
         ELSE on_skip_list(c2)

(* The jump of ON as it would be if ON .. GOSUB pushed the position     *)
(* after the selected label                                            *)
on_jump_push_early(c, u) ==
    LET k == find_var(c.m.labels, c.m.token) IN
    IF k = 0 THEN mu_throw(c, "ON .. GOTO/GOSUB to undefined label")
    ELSE IF u = "T_GOSUB"
         THEN IF c.m.gosub_sp >= MAX_GOSUB - 1 THEN mu_throw(c, "GOSUB stack overflow")
              ELSE Return([c EXCEPT !.m.gosub_stack[c.m.gosub_sp] = c.m.s,
                                    !.m.gosub_sp = @ + 1,
                                    !.g.shadow = Append(@, c.m.s),
                                    !.g.ev.jump = TRUE],
                          c.m.labels[k].c)
    ELSE Return([c EXCEPT !.g.ev.jump = TRUE], c.m.labels[k].c)

on_jump(c, u) ==
    LET k == find_var(c.m.labels, c.m.token) IN
    IF k = 0 THEN mu_throw(c, "ON .. GOTO/GOSUB to undefined label")
    ELSE IF u = "T_GOSUB"
         THEN IF c.m.gosub_sp >= MAX_GOSUB - 1 THEN mu_throw(c, "GOSUB stack overflow")
              ELSE LET c1 == on_skip_list(c) IN
                   IF ~Ok(c1) THEN c1
                   ELSE Return([c1 EXCEPT !.m.gosub_stack[c1.m.gosub_sp] = c1.m.s,
                                          !.m.gosub_sp = @ + 1,
                                          !.g.shadow = Append(@, c1.m.s),
                                          !.g.ev.jump = TRUE],
                               c.m.labels[k].c)
    ELSE Return([c EXCEPT !.g.ev.jump = TRUE], c.m.labels[k].c)

RECURSIVE on_loop(_, _, _, _)
on_loop(c, u, n, j) ==
    LET c1 == tokenize(c) IN
    IF ~Ok(c1) THEN c1
    ELSE IF c1.t \notin {"T_IDENT", "T_NUMBER"} THEN mu_throw(c1, "Label expected")
    ELSE IF c1.m.active # 0 /\ j = n THEN on_jump(c1, u)
    ELSE LET c2 == tokenize(c1) IN
         IF c2.t = "," THEN on_loop(c2, u, n, IF c1.m.active # 0 THEN j + 1 ELSE j)
         ELSE tok_reset(c2)

stmt_on(c) ==
    LET list(c2, n) ==
            IF ~Ok(c2) THEN c2
            ELSE IF c2.t \notin {"T_GOTO", "T_GOSUB"} THEN mu_throw(c2, "GOTO or GOSUB expected")
            ELSE on_loop(c2, c2.t, n, 0)
        selector(c1) == list(tokenize(c1), par_as_int(c1.v))
    IN  selector(parse("expr", NotLeftmost(c)))

(* The header of FOR and NEXT: ident = expr TO expr [STEP expr] DO.     *)
(* Returns in c.v the record of the name and the three values; step is *)
(* the default of NEXT when the header has no STEP                     *)
for_header(c) ==
    LET do(c6, buf, start, stop, step) ==
            IF ~Ok(c6) THEN c6
            ELSE [c6 EXCEPT !.v = [type |-> "for", name |-> buf, start |-> start,
                                   stop |-> stop, step |-> step]]
        by(c5, has_step, buf, start, stop) ==
            do(Expect(c5, "T_DO", "DO expected"), buf, start, stop,
               IF has_step THEN par_as_int(c5.v) ELSE IF start < stop THEN 1 ELSE 0 - 1)
        step(c4, buf, start, stop) ==
            by(IF Ok(c4) /\ c4.t = "T_STEP" THEN parse("expr", c4) ELSE tok_reset(c4),
               c4.t = "T_STEP", buf, start, stop)
        to(c3, buf, start) == step(tokenize(c3), buf, start, par_as_int(c3.v))
        from(c2, buf) == to(parse("expr", Expect(c2, "T_TO", "TO expected")), buf, par_as_int(c2.v))
        var(c1) == from(parse("expr", NotLeftmost(Expect(c1, "=", "'=' expected"))), c1.m.token)
    IN  var(Expect(c, "T_IDENT", "Identifier expected after FOR"))

(* The loop of an inactive FOR that looks for NEXT: returns with st     *)
(* "stmt" to call stmt(), with "ok" when NEXT was read                  *)
RECURSIVE for_skip(_)
for_skip(c) ==
    LET c1 == tokenize(c)
        x == c1.m.last
    IN  IF ~Ok(c1) THEN c1
        ELSE IF c1.t = "T_NEXT" THEN c1
        ELSE IF c1.t \in {"T_NUMBER", "T_LF"} THEN for_skip(c1)
        ELSE IF c1.t = "T_IDENT"
             THEN LET c2 == tokenize(c1) IN
                  IF c2.t = ":" THEN for_skip(c2)
                  ELSE [c2 EXCEPT !.m.s = x, !.st = "stmt"]
        ELSE [tok_reset(c1) EXCEPT !.st = "stmt"]

(* m->for_stack[m->for_sp++] = m->s, after the check for overflow *)
for_push(c) ==
    IF c.m.for_sp >= MAX_FOR THEN mu_throw(c, "FOR stack overflow")
    ELSE [c EXCEPT !.m.for_stack[c.m.for_sp] = c.m.s,
                   !.m.for_sp = @ + 1,
                   !.g.oob = @ \/ c.m.for_sp \notin 0..(MAX_FOR - 1)]

stmt_for(c) ==
    LET body(c1) ==
            IF ~Ok(c1) THEN c1
            ELSE IF c1.m.active = 0
                 THEN LET c2 == for_skip(Expect([c1 EXCEPT !.m.for_sp = @ - 1],
                                                "T_LF", "<LF> expected"))
                      IN  IF c2.st = "stmt" THEN [c2 EXCEPT !.cs = Append(@, [k |-> "for"])]
                          ELSE c2
            ELSE [c1 EXCEPT !.m = mu_set_num(@, c1.v.name, c1.v.start)]
    IN  body(for_header(for_push(c)))

(* NEXT as it would be if it left the frame of the loop on the stack *)
next_step_no_pop(c, save) ==
    LET idx == mu_get_num(c.m, c.v.name) IN
    IF idx = c.v.stop
    THEN [c EXCEPT !.m.s = save]
    ELSE [c EXCEPT !.m = mu_set_num(@, c.v.name, Add32(idx, c.v.step)), !.g.ev.jump = TRUE]

(* NEXT as it would be if it left once the variable is at or past stop *)
next_step_past(c, save) ==
    LET idx == mu_get_num(c.m, c.v.name) IN
    IF (c.v.step > 0 /\ idx >= c.v.stop) \/ (c.v.step < 0 /\ idx <= c.v.stop) \/ idx = c.v.stop
    THEN [c EXCEPT !.m.s = save, !.m.for_sp = @ - 1]
    ELSE [c EXCEPT !.m = mu_set_num(@, c.v.name, Add32(idx, c.v.step)), !.g.ev.jump = TRUE]

(* NEXT in active mode, from the test of the loop variable on *)
next_step(c, save) ==
    LET idx == mu_get_num(c.m, c.v.name) IN
    IF idx = c.v.stop
    THEN [c EXCEPT !.m.s = save, !.m.for_sp = @ - 1]
    ELSE [c EXCEPT !.m = mu_set_num(@, c.v.name, Add32(idx, c.v.step)), !.g.ev.jump = TRUE]

stmt_next(c) ==
    IF c.m.active = 0 THEN Return(c, NULL)
    ELSE IF c.m.for_sp < 1 THEN mu_throw(c, "FOR stack underflow")
    ELSE LET test(c1) == IF ~Ok(c1) THEN c1 ELSE Return(next_step(c1, c.m.s), NULL)
         IN  test(for_header([c EXCEPT !.m.s = c.m.for_stack[c.m.for_sp - 1],
                                       !.g.oob = @ \/ (c.m.for_sp - 1) \notin 0..(MAX_FOR - 1)]))

stmt_end(c) ==
    IF c.m.active # 0 THEN Return([tok_reset(c) EXCEPT !.g.ev.jump = (c.t = "T_KEND")], NULL)
    ELSE Return(c, NULL)

(* stmt(): from its entry to its return, to its next call of stmt(), or *)
(* to the invocation of CALL()                                         *)
stmt(c) ==
    LET end(c2) == IF Ok(c2) THEN stmt_tail(c2) ELSE c2
        switch(c1) ==
            end(CASE c1.t \in {"T_IDENT", "T_LET"} -> stmt_assign(c1)
                  [] c1.t = "T_IF" -> stmt_if(c1)
                  [] c1.t \in {"T_GOTO", "T_GOSUB"} -> stmt_goto(c1, c1.t)
                  [] c1.t = "T_RETURN" -> stmt_return(c1)
                  [] c1.t = "T_ON" -> stmt_on(c1)
                  [] c1.t = "T_FOR" -> stmt_for(c1)
                  [] c1.t = "T_NEXT" -> stmt_next(c1)
                  [] c1.t \in {"T_KEND", "T_END"} -> stmt_end(c1)
                  [] OTHER -> mu_throw(c1, "Statement expected"))
    IN  switch(tokenize(c))

(* The call of a routine of the parser *)
parse(rule, c) ==
    CASE rule = "stmt" -> stmt(c)
      [] rule = "expr" -> expr(c)
      [] rule = "and_expr" -> and_expr(c)
      [] rule = "not_expr" -> not_expr(c)
      [] rule = "comp_expr" -> comp_expr(c)
      [] rule = "cat_expr" -> cat_expr(c)
      [] rule = "add_expr" -> add_expr(c)
      [] rule = "mul_expr" -> mul_expr(c)
      [] rule = "uexpr" -> uexpr(c)
      [] rule = "atom" -> atom(c)
      [] rule = "expr_after_call" -> expr_after_call(c)

(* ------------------------------------------------------------------ *)
(* The label indexer                                                   *)
(* ------------------------------------------------------------------ *)
new_label(c) == [c EXCEPT !.m.labels = put_var(@, [name |-> c.m.token, c |-> c.m.s])]

scan_number(c, ln) ==
    IF atoi(c.m.token) <= ln THEN mu_throw(c, "Label out of sequence")
    ELSE IF find_var(c.m.labels, c.m.token) # 0 THEN mu_throw(c, "Duplicate label")
    ELSE new_label(c)

RECURSIVE scan_loop(_, _, _)
scan_loop(c, ft, ln) ==
    LET c1 == IF ft THEN c ELSE tokenize(c)
        t == IF ft THEN "T_END" ELSE c1.t
    IN  IF ~Ok(c1) THEN c1
        ELSE IF ~ft /\ t = "T_END" THEN c1
        ELSE IF ft \/ t = "T_LF"
             THEN LET c2 == tokenize(c1) IN
                  IF c2.t = "T_NUMBER"
                  THEN scan_loop(scan_number(c2, ln), FALSE, atoi(c2.m.token))
                  ELSE IF c2.t = "T_IDENT"
                       THEN LET c3 == tokenize(c2) IN
                            scan_loop(IF c3.t = ":" THEN new_label(c3) ELSE c3, FALSE, ln)
                  ELSE IF t = "T_LF" THEN scan_loop(tok_reset(c2), FALSE, ln)
                  ELSE scan_loop(c2, FALSE, ln)
        ELSE scan_loop(c1, FALSE, ln)

scan_labels(c) ==
    LET rewind(c1) == IF ~Ok(c1) THEN c1 ELSE [c1 EXCEPT !.m.s = c.m.s] IN
    rewind(scan_loop(c, TRUE, 0 - 1))

(* ------------------------------------------------------------------ *)
(* The C call stack                                                    *)
(*   [k |-> "mu_run", ft]      mu_run() in program(); ft is program()'s *)
(*   [k |-> "mu_gosub", ft, save, save_sp, save_jmp]   mu_gosub() in    *)
(*                             program(), with mu_gosub()'s locals     *)
(*   [k |-> "if", save]        stmt() of an IF in its call of stmt()   *)
(*   [k |-> "for"]             stmt() of an inactive FOR in its call   *)
(*                             of stmt()                               *)
(*   [k |-> "fparams", stmt, name, fname, params, rv]   stmt() and      *)
(*                             fparams() in the call of CALL(), with   *)
(*                             my_call()'s rv.v.i                      *)
(* A jmp_buf is the index of the activation that called setjmp().      *)
(* ------------------------------------------------------------------ *)
Top(cs) == cs[Len(cs)]

Pop(cs) == SubSeq(cs, 1, Len(cs) - 1)

(* The handler of mu_run(): lines 1075-1080 *)
mu_run_failed(c) ==
    LET c1 == tok_reset([c EXCEPT !.st = "ok"]) IN
    IF c1.m.s = NULL THEN [c1 EXCEPT !.st = "done", !.pc = "crash"]
    ELSE [c1 EXCEPT !.m.error_text = c1.m.s, !.cs = <<>>, !.rv = 0, !.st = "done",
                    !.pc = "idle"]

(* The characters of a token in the source, and of the source from its *)
(* token p on: one blank between two tokens of a line                  *)
Lexeme(k) ==
    CASE k.t = "T_STRING" -> <<"\"">> \o k.tok \o <<"\"">>
      [] k.t = "T_LF" -> <<"\n">>
      [] k.t \in TextKinds -> k.tok
      [] OTHER -> <<k.t>>

RECURSIVE Chars(_, _)
Chars(toks, p) ==
    IF p > Len(toks) THEN <<>>
    ELSE Lexeme(toks[p])
         \o (IF p < Len(toks) /\ toks[p].t # "T_LF" /\ toks[IF p < Len(toks) THEN p + 1 ELSE p].t # "T_LF"
             THEN <<" ">> ELSE <<>>)
         \o Chars(toks, p + 1)

(* The loop of the handler of mu_run() that copies m->s into            *)
(* m->error_text: lines 1077-1079                                      *)
RECURSIVE error_text_loop(_, _)
error_text_loop(chars, i) ==
    IF i < MAX_ERROR_TEXT - 1 /\ i < Len(chars) /\ chars[IF i < Len(chars) THEN i + 1 ELSE 1] # "\n"
    THEN <<chars[i + 1]>> \o error_text_loop(chars, i + 1)
    ELSE <<>>

(* mu_error_text(): the content of m->error_text, "" until a run fails *)
mu_error_text(mm) ==
    IF mm.error_text = NULL \/ mm.error_text.src \notin 1..Len(Sources) THEN <<>>
    ELSE error_text_loop(Chars(Sources[mm.error_text.src], mm.error_text.pos), 0)

(* restore: as it would be without m->gosub_sp = save_sp *)
mu_gosub_restore_keeps_sp(mm, fr) ==
    [mm EXCEPT !.on_error = fr.save_jmp, !.s = fr.save, !.last = NULL]

(* restore: as it would be without m->s = save *)
mu_gosub_restore_keeps_s(mm, fr) ==
    [mm EXCEPT !.on_error = fr.save_jmp, !.last = NULL, !.gosub_sp = fr.save_sp]

(* restore: of mu_gosub(), lines 1139-1147 *)
mu_gosub_restore(mm, fr) ==
    [mm EXCEPT !.on_error = fr.save_jmp, !.s = fr.save, !.last = NULL, !.gosub_sp = fr.save_sp]

(* mu_gosub() returns res to my_call(), whose activation is on top of cs *)
mu_gosub_return(c, cs, res) ==
    [c EXCEPT !.cs = [cs EXCEPT ![Len(cs)].rv = res], !.st = "done", !.pc = "my_call"]

(* The handler of mu_gosub(): lines 1125-1132, then restore: *)
mu_gosub_failed(c, d) ==
    LET c1 == tok_reset([c EXCEPT !.st = "ok"]) IN
    IF c1.m.s = NULL THEN [c1 EXCEPT !.st = "done", !.pc = "crash"]
    ELSE mu_gosub_return([c1 EXCEPT !.m = mu_gosub_restore([@ EXCEPT !.error_text = c1.m.s],
                                                           c.cs[d]),
                                    !.g.shadow = SubSeq(@, 1, c.cs[d].g_shadow)],
                         SubSeq(c.cs, 1, d - 1), 0)

(* longjmp(m->on_error, -1) *)
longjmp(c) ==
    LET d == c.m.on_error IN
    IF d \notin 1..Len(c.cs) \/ c.cs[IF d \in 1..Len(c.cs) THEN d ELSE 1].k \notin {"mu_run", "mu_gosub"}
    THEN [c EXCEPT !.st = "done", !.pc = "crash"]
    ELSE IF c.cs[d].k = "mu_run" THEN mu_run_failed(c)
    ELSE mu_gosub_failed(c, d)

(* program() after stmt() returned c.r to it: lines 507-515 *)
program_after_stmt(c) ==
    [c EXCEPT !.m.s = IF c.r # NULL THEN c.r ELSE @,
              !.m.last = IF c.r # NULL THEN NULL ELSE @,
              !.cs[Len(c.cs)].ft = FALSE,
              !.st = "done", !.pc = "program"]

(* The return of stmt() through the activations of stmt() that wait    *)
(* for it, down to program()                                           *)
RECURSIVE unwind(_)
unwind(c) ==
    IF c.st # "ret" THEN c
    ELSE LET top == Top(c.cs) IN
         CASE top.k = "if" ->
                LET c1 == [c EXCEPT !.cs = Pop(@), !.m.active = top.save] IN
                IF c.r # NULL THEN unwind(c1)
                ELSE unwind(stmt_tail([c1 EXCEPT !.st = "ok"]))
           [] top.k = "for" ->
                LET c1 == for_skip([c EXCEPT !.st = "ok", !.r = NULL]) IN
                IF Ok(c1) THEN unwind(stmt_tail([c1 EXCEPT !.cs = Pop(@)])) ELSE c1
           [] top.k \in {"mu_run", "mu_gosub"} -> program_after_stmt(c)

(* What an action does with the outcome of the routines it ran *)
finish(c) ==
    CASE c.st = "throw" -> longjmp(c)
      [] c.st = "stmt" -> [c EXCEPT !.pc = "stmt"]
      [] c.st = "invoke" ->
            [c EXCEPT !.pc = "invoke",
                      !.cs = Append(@, [k |-> "fparams", stmt |-> c.inv.stmt, name |-> c.inv.name,
                                        fname |-> c.inv.fname, params |-> c.inv.params,
                                        rv |-> 0 - 1,
                                        g_s |-> c.m.s, g_jmp |-> c.m.on_error,
                                        g_sp |-> c.m.gosub_sp, g_active |-> c.m.active,
                                        g_fsp |-> c.m.for_sp])]
      [] c.st = "done" -> c
      [] OTHER -> [c EXCEPT !.pc = "unmodelled"]

(* ------------------------------------------------------------------ *)
(* Observations kept beside the program state                          *)
(*   out     the lines PRINT wrote during the current run              *)
(*   runs    the number of calls of mu_run() so far                    *)
(*   script  the source of the current or last run                     *)
(*   ev      the step taken last: its kind, the cursor, flag, stack    *)
(*           depths, variables and output length before it, the        *)
(*           message of the error it raised, whether it transferred    *)
(*           control, the label table and the number of regs before it *)
(*           (rel: for every call of a function that the step           *)
(*           finished, the array of its arguments and the number of    *)
(*           elements the loop that releases them went through)        *)
(*   oob     a stack array was accessed outside its bounds             *)
(*   shadow  the resumption points of the GOSUBs not yet returned from *)
(*   pre     what ev would record, at the call of mu_run() of the      *)
(*           current or last run                                       *)
(*   halted  the number of lines written when mu_halt() was called in  *)
(*           the current or last run, -1 if it was not                 *)
(*   regs    the calls of mu_add_func() the host made after main()'s,   *)
(*           each the name and the function given                      *)
(*   calls   the last two calls of the accessor functions the host     *)
(*           made after main()'s: the function, the name and value     *)
(*           given, and what it returned                               *)
(*   ncalls  the number of such calls so far                           *)
(* ------------------------------------------------------------------ *)
NoEv == [op |-> "", active |-> 0, gsp |-> 0, fsp |-> 0, s |-> NULL, vars |-> <<>>,
         nout |-> 0, msg |-> "", jump |-> FALSE, cs |-> <<>>, jmp |-> 0, shadow |-> <<>>,
         labels |-> <<>>, halted |-> 0 - 1, nregs |-> 0, rel |-> <<>>]

GInit == [out |-> <<>>, runs |-> 0, script |-> 0, ev |-> NoEv, oob |-> FALSE, shadow |-> <<>>,
          pre |-> NoEv, halted |-> 0 - 1, regs |-> <<>>, calls |-> <<>>, ncalls |-> 0]

Ev(op, mm, cs, gg) ==
    [op |-> op, active |-> mm.active, gsp |-> mm.gosub_sp, fsp |-> mm.for_sp, s |-> mm.s,
     vars |-> mm.vars, nout |-> Len(gg.out), msg |-> "", jump |-> FALSE, cs |-> cs,
     jmp |-> mm.on_error, shadow |-> gg.shadow, labels |-> mm.labels,
     halted |-> gg.halted, nregs |-> Len(gg.regs), rel |-> <<>>]

Here(op) == Ctx(m, cstack, [g EXCEPT !.ev = Ev(op, m, cstack, g)], rv)

Apply(c) ==
    /\ m' = c.m
    /\ cstack' = c.cs
    /\ pc' = c.pc
    /\ rv' = c.rv
    /\ g' = c.g

(* ------------------------------------------------------------------ *)
(* Actions                                                             *)
(* ------------------------------------------------------------------ *)
Init ==
    /\ m = mu_create
    /\ cstack = <<>>
    /\ pc = "created"
    /\ rv = 0 - 1
    /\ g = GInit

(* The variables main() sets before it runs the first script *)
main_vars(mm) ==
    mu_set_str(
        mu_set_num(
            mu_set_str(mm, <<"m","y","s","t","r","$">>, <<"f","n","o","r","d">>),
            <<"m","y","n","u","m">>, 12345),
        <<"m","y","a","r","r","a","y","$","[","f","o","o","]">>, <<"X","Y","Z","Z","Y">>)

(* main() registers its functions and sets its variables *)
MainRegister ==
    /\ pc = "created"
    /\ m' = main_vars(add_funs(m, MainFuns, 1))
    /\ pc' = "idle"
    /\ UNCHANGED <<cstack, rv, g>>

(* mu_run() up to its call of program(): lines 1069-1083 *)
mu_run_enter(c, i) ==
    LET run(c1) == IF Ok(c1) THEN [c1 EXCEPT !.st = "done", !.pc = "program"] ELSE c1
    IN  run(scan_labels([c EXCEPT !.m.s = Ptr(i, 1), !.m.start = Ptr(i, 1), !.m.last = NULL,
                                  !.m.on_error = 1,
                                  !.cs = <<[k |-> "mu_run", ft |-> TRUE]>>]))

MuRun(i) ==
    /\ pc = "idle"
    /\ g.runs < MaxRuns
    /\ Apply(finish(mu_run_enter(
           Ctx(m, cstack, [g EXCEPT !.runs = @ + 1, !.script = i, !.out = <<>>,
                                    !.halted = 0 - 1,
                                    !.ev = Ev("mu_run", m, cstack, g),
                                    !.pre = Ev("mu_run", m, cstack, g)], rv), i)))

(* program() returns: to mu_run(), lines 1086-1089, or to mu_gosub(),   *)
(* lines 1137-1147                                                     *)
program_return(c) ==
    LET top == Top(c.cs) IN
    IF top.k = "mu_run"
    THEN [c EXCEPT !.m.labels = <<>>, !.cs = <<>>, !.rv = 1, !.st = "done", !.pc = "idle"]
    ELSE mu_gosub_return([c EXCEPT !.m = mu_gosub_restore(@, top),
                                   !.g.shadow = SubSeq(@, 1, top.g_shadow)],
                         Pop(c.cs), 1)

(* One pass of the loop of program(), up to its call of stmt() *)
program_label(c) ==
    IF c.t = "T_IDENT"
    THEN LET c1 == tokenize(c) IN
         IF c1.t # ":" THEN [c1 EXCEPT !.m.s = c.m.last] ELSE c1
    ELSE IF c.t # "T_NUMBER" THEN tok_reset(c)
    ELSE c

program_step(c) ==
    LET top == Top(c.cs)
        c1 == tokenize(c)
    IN  IF c1.t \in {"T_END", "T_KEND"} THEN program_return(c1)
        ELSE IF top.ft \/ c1.t = "T_LF"
             THEN [program_label(IF top.ft THEN c1 ELSE tokenize(c1))
                      EXCEPT !.cs[Len(c.cs)].ft = FALSE, !.st = "done", !.pc = "program"]
        ELSE [tok_reset(c1) EXCEPT !.st = "stmt"]

Program ==
    /\ pc = "program"
    /\ Apply(finish(program_step(Here("program"))))

Stmt ==
    /\ pc = "stmt"
    /\ Apply(finish(unwind(parse("stmt", Here(tokenize(Here("")).t)))))

(* mu_gosub() as it would be without its own setjmp() *)
mu_gosub_enter_no_setjmp(c, label) ==
    LET k == find_var(c.m.labels, label) IN
    IF k = 0
    THEN mu_gosub_return([c EXCEPT !.m.error_msg = "GOSUB to undefined label"], c.cs, 0)
    ELSE IF c.m.gosub_sp >= MAX_GOSUB - 1
    THEN mu_gosub_return([c EXCEPT !.m.error_msg = "GOSUB stack overflow"], c.cs, 0)
    ELSE [c EXCEPT !.m.s = c.m.labels[k].c,
                   !.m.last = NULL,
                   !.m.gosub_stack[c.m.gosub_sp] = NULL,
                   !.m.gosub_sp = @ + 1,
                   !.g.shadow = Append(@, NULL),
                   !.cs = Append(@, [k |-> "mu_gosub", ft |-> TRUE, save |-> c.m.s,
                                     save_sp |-> c.m.gosub_sp, save_jmp |-> c.m.on_error,
                                     g_shadow |-> Len(c.g.shadow)]),
                   !.st = "done", !.pc = "program"]

(* mu_gosub() as it would be if it pushed the cursor instead of NULL *)
mu_gosub_enter_no_sentinel(c, label) ==
    LET k == find_var(c.m.labels, label) IN
    IF k = 0
    THEN mu_gosub_return([c EXCEPT !.m.error_msg = "GOSUB to undefined label"], c.cs, 0)
    ELSE IF c.m.gosub_sp >= MAX_GOSUB - 1
    THEN mu_gosub_return([c EXCEPT !.m.error_msg = "GOSUB stack overflow"], c.cs, 0)
    ELSE [c EXCEPT !.m.s = c.m.labels[k].c,
                   !.m.last = NULL,
                   !.m.gosub_stack[c.m.gosub_sp] = c.m.s,
                   !.m.gosub_sp = @ + 1,
                   !.m.on_error = Len(c.cs) + 1,
                   !.g.shadow = Append(@, c.m.s),
                   !.cs = Append(@, [k |-> "mu_gosub", ft |-> TRUE, save |-> c.m.s,
                                     save_sp |-> c.m.gosub_sp, save_jmp |-> c.m.on_error,
                                     g_shadow |-> Len(c.g.shadow)]),
                   !.st = "done", !.pc = "program"]

(* mu_gosub() up to its call of program(): lines 1092-1136 *)
mu_gosub_enter(c, label) ==
    LET k == find_var(c.m.labels, label) IN
    IF k = 0
    THEN mu_gosub_return([c EXCEPT !.m.error_msg = "GOSUB to undefined label"], c.cs, 0)
    ELSE IF c.m.gosub_sp >= MAX_GOSUB - 1
    THEN mu_gosub_return([c EXCEPT !.m.error_msg = "GOSUB stack overflow"], c.cs, 0)
    ELSE [c EXCEPT !.m.s = c.m.labels[k].c,
                   !.m.last = NULL,
                   !.m.gosub_stack[c.m.gosub_sp] = NULL,
                   !.m.gosub_sp = @ + 1,
                   !.m.on_error = Len(c.cs) + 1,
                   !.g.shadow = Append(@, NULL),
                   !.cs = Append(@, [k |-> "mu_gosub", ft |-> TRUE, save |-> c.m.s,
                                     save_sp |-> c.m.gosub_sp, save_jmp |-> c.m.on_error,
                                     g_shadow |-> Len(c.g.shadow)]),
                   !.st = "done", !.pc = "program"]

(* my_call() up to the return of mu_gosub(): lines 432-436 *)
my_call_enter(c) ==
    LET c1 == mu_par_str(c, 0) IN
    IF Ok(c1) THEN mu_gosub_enter(c1, c1.v.s) ELSE c1

MyCall ==
    /\ pc = "invoke"
    /\ Apply(finish(my_call_enter(Here("my_call"))))

(* fparams() and stmt() after CALL() returned c.v: lines 790-794, then  *)
(* 560-567 or 570-571, then the end of stmt().  When a call made by    *)
(* the subroutine left m->argc above the number of arguments of this   *)
(* call, the loop reads elements of the array that this call never     *)
(* set: one that holds what an earlier call left there is released a   *)
(* second time, which ends the process (stale tells whether it does)   *)
stmt_after_call(c, fr, stale) ==
    LET c1 == fparams_free([c EXCEPT !.cs = Pop(@), !.lm = FALSE], fr.params) IN
    IF c.m.argc > Len(fr.params) /\ stale THEN [c1 EXCEPT !.st = "done", !.pc = "crash"]
    ELSE IF fr.stmt = "assign" THEN stmt_store(parse("expr_after_call", c1), fr.name)
    ELSE c1

(* my_call() after mu_gosub() returned: lines 437-443.  The call        *)
(* mu_throw(m, mu_error_msg(m)) makes vsnprintf() format m->error_msg  *)
(* into m->error_msg itself, which is undefined: the message is kept   *)
(* or comes out empty (kept tells which)                               *)
my_call_leave(c, kept, stale) ==
    LET fr == Top(c.cs) IN
    IF fr.rv = 0
    THEN [mu_throw(c, c.m.error_msg) EXCEPT !.m.error_msg = IF kept THEN @ ELSE ""]
    ELSE LET end(c1) == IF Ok(c1) THEN unwind(stmt_tail(c1)) ELSE c1
         IN  end(stmt_after_call([c EXCEPT !.v = V_int(fr.rv)], fr, stale))

MyCallReturn ==
    /\ pc = "my_call"
    /\ \E kept, stale \in BOOLEAN :
          Apply(finish(my_call_leave(Here("my_call_return"), kept, stale)))

Next ==
    \/ MainRegister
    \/ \E i \in 1..Len(Scripts) : MuRun(i)
    \/ Program
    \/ Stmt
    \/ MyCall
    \/ MyCallReturn

Spec == Init /\ [][Next]_vars

(* The value of the loop variable i of the sources above, 0 before it  *)
(* is set                                                              *)
Count(mm) == LET n == mu_get_num(mm, <<"i">>) IN IF n < 0 THEN 0 - n ELSE n

(* The first runs of a host that runs the sources of the language      *)
(* constructs; a loop that never ends is followed while its variable   *)
(* is within MaxCount                                                  *)
MuRunLang(i) ==
    /\ g.runs < MaxLangRuns
    /\ MuRun(i)

StmtLang ==
    /\ Count(m) <= MaxCount
    /\ Stmt

NextLang ==
    \/ MainRegister
    \/ \E i \in LangScripts : MuRunLang(i)
    \/ Program
    \/ StmtLang
    \/ MyCall
    \/ MyCallReturn

SpecLang == Init /\ [][NextLang]_vars

(* The names and functions the host gives to mu_add_func() after       *)
(* main()'s registrations; "NULL" is the null pointer                  *)
HostNames == {f_show, <<"S","h","o","w">>, f_print}

HostFuns == {"my_print", "my_halt", "NULL"}

(* The host calls mu_add_func() between runs *)
AddFunc(name, fun) ==
    /\ pc = "idle"
    /\ Len(g.regs) < MaxAdds
    /\ m' = mu_add_func(m, name, fun)
    /\ g' = [g EXCEPT !.regs = Append(@, <<name, fun>>)]
    /\ UNCHANGED <<cstack, pc, rv>>

(* The names and values the host gives to the accessor functions *)
VarNames == {<<"x">>, <<"y","$">>}

VarInts == {5}

VarStrs == {<<"7","x">>}

HostCall(op, name, val, got) == [op |-> op, name |-> name, val |-> val, got |-> got]

(* The record of the calls after one more *)
Called(gg, call) ==
    [gg EXCEPT !.calls = IF Len(@) < 2 THEN Append(@, call) ELSE <<@[2], call>>,
               !.ncalls = @ + 1]

(* The host calls mu_set_num() between runs *)
SetNum(name, num) ==
    /\ pc = "idle"
    /\ g.ncalls < MaxCalls
    /\ m' = mu_set_num(m, name, num)
    /\ g' = Called([g EXCEPT !.ev = Ev("mu_set_num", m, cstack, g)],
                   HostCall("mu_set_num", name, V_int(num), V_int(1)))
    /\ UNCHANGED <<cstack, pc, rv>>

(* The host calls mu_set_str() between runs *)
SetStr(name, str) ==
    /\ pc = "idle"
    /\ g.ncalls < MaxCalls
    /\ m' = mu_set_str(m, name, str)
    /\ g' = Called([g EXCEPT !.ev = Ev("mu_set_str", m, cstack, g)],
                   HostCall("mu_set_str", name, V_str(str), V_int(1)))
    /\ UNCHANGED <<cstack, pc, rv>>

(* The host calls mu_get_num() between runs *)
GetNum(name) ==
    /\ pc = "idle"
    /\ g.ncalls < MaxCalls
    /\ g' = Called([g EXCEPT !.ev = Ev("mu_get_num", m, cstack, g)],
                   HostCall("mu_get_num", name, NoVal, V_int(mu_get_num(m, name))))
    /\ UNCHANGED <<m, cstack, pc, rv>>

(* The host calls mu_get_str() between runs *)
GetStr(name) ==
    /\ pc = "idle"
    /\ g.ncalls < MaxCalls
    /\ m' = mu_get_str(m, name).m
    /\ g' = Called([g EXCEPT !.ev = Ev("mu_get_str", m, cstack, g)],
                   HostCall("mu_get_str", name, NoVal,
                            IF mu_get_str(m, name).null THEN V_null
                            ELSE V_str(mu_get_str(m, name).s)))
    /\ UNCHANGED <<cstack, pc, rv>>

(* The integers and strings the host stores and reads back, each with  *)
(* what it is as a string and as an integer                            *)
AccInts ==
    << <<0, <<"0">>>>, <<5, <<"5">>>>, <<0 - 30, <<"-","3","0">>>>,
       <<INT_MAX, <<"2","1","4","7","4","8","3","6","4","7">>>>,
       <<INT_MIN, <<"-","2","1","4","7","4","8","3","6","4","8">>>> >>

AccStrs ==
    << <<<<"7">>, 7>>, <<<<"7","x">>, 7>>, <<<<"a","b">>, 0>>, <<<<>>, 0>>,
       <<<<"-","1","2","0","y">>, 0 - 120>> >>

NextAccess ==
    \/ MainRegister
    \/ \E k \in 1..Len(AccInts) : SetNum(<<"x">>, AccInts[k][1])
    \/ \E k \in 1..Len(AccStrs) : SetStr(<<"x">>, AccStrs[k][1])
    \/ GetNum(<<"x">>)
    \/ GetStr(<<"x">>)

SpecAccess == Init /\ [][NextAccess]_vars

MuRunVars(i) ==
    /\ g.runs < MaxVarRuns
    /\ MuRun(i)

NextVars ==
    \/ MainRegister
    \/ \E name \in VarNames, num \in VarInts : SetNum(name, num)
    \/ \E name \in VarNames, str \in VarStrs : SetStr(name, str)
    \/ \E i \in VarRuns : MuRunVars(i)
    \/ Program
    \/ Stmt

SpecVars == Init /\ [][NextVars]_vars

(* What a read of the lexer returned: the kind, m->token and m->s;     *)
(* NoRead before the first read                                        *)
Read(c) == [t |-> c.t, token |-> c.m.token, s |-> c.m.s]

NoRead == [t |-> "", token |-> <<>>, s |-> NULL]

(* The record of the calls of the lexer after one more: the last two.   *)
(* The val of a call of tok_reset() is what the read before it         *)
(* returned.                                                           *)
LexCalled(gg, call) ==
    [gg EXCEPT !.calls = IF Len(@) < 2 THEN Append(@, call) ELSE <<@[2], call>>]

LastRead ==
    IF g.calls = <<>> THEN NoRead
    ELSE IF g.calls[Len(g.calls)].op = "tokenize" THEN g.calls[Len(g.calls)].got
    ELSE g.calls[Len(g.calls)].val

(* mu_run() gives a source of characters to the lexer: lines 1070-1072 *)
MuRunLex(i) ==
    /\ pc = "created"
    /\ m' = [m EXCEPT !.s = Ptr(i, 1), !.start = Ptr(i, 1), !.last = NULL]
    /\ pc' = "lex"
    /\ g' = [g EXCEPT !.script = i, !.ev = Ev("mu_run", m, cstack, g)]
    /\ UNCHANGED <<cstack, rv>>

(* A caller reads a token.  A read that starts behind the terminator   *)
(* of the source is a read out of bounds; a fatal error ends the run   *)
(* in the handler of mu_run().                                         *)
Tokenize ==
    /\ pc = "lex"
    /\ LET c == tokenize_chars(Here("tokenize")) IN
       IF m.s.pos > Len(TokTexts[m.s.src]) + 1
       THEN /\ pc' = "crash"
            /\ g' = [g EXCEPT !.oob = TRUE, !.ev = Ev("tokenize", m, cstack, g)]
            /\ UNCHANGED <<m, cstack, rv>>
       ELSE IF c.st = "throw"
       THEN /\ m' = [c.m EXCEPT !.s = c.m.last, !.error_text = c.m.last]
            /\ g' = c.g
            /\ pc' = "idle"
            /\ rv' = 0
            /\ UNCHANGED cstack
       ELSE /\ m' = c.m
            /\ g' = LexCalled(c.g, HostCall("tokenize", <<>>, NoRead, Read(c)))
            /\ UNCHANGED <<cstack, pc, rv>>

(* A caller pushes the token back *)
TokReset ==
    /\ pc = "lex"
    /\ LET c == tok_reset(Here("tok_reset")) IN
       /\ m' = c.m
       /\ g' = LexCalled(c.g, HostCall("tok_reset", <<>>, LastRead,
                                       [t |-> "", token |-> c.m.token, s |-> c.m.s]))
    /\ UNCHANGED <<cstack, pc, rv>>

NextLex ==
    \/ \E i \in 1..Len(TokTexts) : MuRunLex(i)
    \/ Tokenize
    \/ TokReset

SpecLex == Init /\ [][NextLex]_vars

NextHost ==
    \/ MainRegister
    \/ \E name \in HostNames, fun \in HostFuns : AddFunc(name, fun)
    \/ \E i \in HostScripts : MuRunLang(i)
    \/ Program
    \/ Stmt

SpecHost == Init /\ [][NextHost]_vars

(* ------------------------------------------------------------------ *)
(* Properties                                                          *)
(* ------------------------------------------------------------------ *)

(* The activation of mu_run() or mu_gosub() innermost in cs, 0 if none *)
RunFrame(cs) ==
    LET S == {k \in 1..Len(cs) : cs[k].k \in {"mu_run", "mu_gosub"}} IN
    IF S = {} THEN 0 ELSE CHOOSE k \in S : \A j \in S : j <= k

(* The steps that are one call of stmt() *)
IsStmt(op) == op \notin {"", "mu_run", "program", "my_call", "my_call_return"}

(* q is p, or follows p after nothing but ':' and newlines *)
Resumed(p, q) ==
    /\ q.src = p.src
    /\ q.pos >= p.pos
    /\ \A k \in p.pos..(q.pos - 1) : Scripts[p.src][k].t \in {":", "T_LF"}

(* p is the position right after the ')' of a call of CALL() *)
AfterCall(p) ==
    /\ p.src \in 1..Len(Scripts)
    /\ p.pos > 4
    /\ Scripts[p.src][p.pos - 1] = Op(")")
    /\ LowerStr(Scripts[p.src][p.pos - 4].tok) = f_call

(* C1: every call of mu_run() has the active flag set when program()   *)
(* starts on the first statement, whatever earlier runs left behind    *)
C1_RunStartsActive ==
    (g.ev.op = "mu_run" /\ pc = "program") => m.active = 1

(* C2: the label table is empty whenever no run is in progress: after  *)
(* mu_create() and after every return of mu_run(), with 1 or with 0    *)
C2_LabelsEmptyWhenIdle ==
    pc \in {"created", "idle"} => m.labels = <<>>

(* C3: when mu_gosub() returns to the function that called it, on any  *)
(* of its return paths, the cursor, the error handler and the depth of *)
(* the GOSUB stack are what they were when it was called               *)
C3_InvokeLabelRestores ==
    pc = "my_call" =>
        LET fr == Top(cstack) IN
        /\ m.s = fr.g_s
        /\ m.on_error = fr.g_jmp
        /\ m.gosub_sp = fr.g_sp

(* mu_gosub() returned 0 because a statement of the subroutine raised  *)
(* an error                                                            *)
C3_Witness ==
    /\ pc = "my_call"
    /\ Top(cstack).rv = 0
    /\ IsStmt(g.ev.op)
    /\ g.ev.msg = "Read from undefined variable"

(* C4: with callbacks nested, each level resumes right after its own   *)
(* call of CALL() when the callback it started returns, and the script *)
(* that started the nesting goes on with the statement after its call  *)
C4_NestedCallbacksResume ==
    /\ pc = "my_call" => (m.s = Top(cstack).g_s /\ AfterCall(m.s))
    /\ (g.ev.op = "my_call_return" /\ g.ev.msg = "" /\ Top(g.ev.cs).stmt = "call") =>
           /\ Resumed(Top(g.ev.cs).g_s, m.s)
           /\ Len(cstack) < Len(g.ev.cs)
           /\ cstack = SubSeq(g.ev.cs, 1, Len(cstack))
    /\ (g.runs = 1 /\ pc = "idle" /\ Scripts[g.script] = SrcNest) =>
           (rv = 1 /\ g.out = << <<"d">>, <<"c">>, <<"e">> >>)

(* The outermost script has resumed after two nested callbacks         *)
C4_Witness ==
    /\ g.ev.op = "my_call_return"
    /\ Len(cstack) = 1
    /\ Scripts[g.script] = SrcNest
    /\ g.out = << <<"d">>, <<"c">> >>
    /\ pc = "stmt"

(* C5: an error raised while the statements of a callback run is       *)
(* caught by that mu_gosub(), which returns 0 to the function that     *)
(* called it and leaves the activations below it in place; the handler *)
(* in force is always the one of the innermost mu_run() or mu_gosub()  *)
(* still running, so an error raised by the function afterwards goes   *)
(* to the boundary that encloses it                                    *)
C5_CallbackErrorCaught ==
    /\ pc \in {"program", "stmt", "invoke", "my_call"} => m.on_error = RunFrame(cstack)
    /\ (g.ev.msg # "" /\ g.ev.op # "mu_run") =>
           LET d == RunFrame(g.ev.cs) IN
           IF g.ev.cs[d].k = "mu_gosub"
           THEN /\ pc = "my_call"
                /\ cstack = [SubSeq(g.ev.cs, 1, d - 1) EXCEPT ![d - 1].rv = 0]
                /\ cstack[1].k = "mu_run"
                /\ m.on_error = g.ev.cs[d].save_jmp
           ELSE pc = "idle" /\ rv = 0 /\ cstack = <<>>

(* CALL() raised an error after its callback had failed, and the       *)
(* mu_gosub() that encloses it caught it                               *)
C5_Witness ==
    /\ g.ev.op = "my_call_return"
    /\ g.ev.msg # ""
    /\ pc = "my_call"
    /\ Top(cstack).rv = 0

C7_GosubReturnLifo ==
    /\ Len(g.shadow) = m.gosub_sp
    /\ \A k \in 1..Len(g.shadow) : m.gosub_stack[k - 1] = g.shadow[k]
    /\ (g.ev.op = "T_RETURN" /\ g.ev.active = 1 /\ g.ev.msg = "") =>
           /\ m.gosub_sp = g.ev.gsp - 1
           /\ LET p == g.ev.shadow[Len(g.ev.shadow)] IN
              IF p = NULL THEN m.s = NULL ELSE Resumed(p, m.s)
    /\ (g.runs = 1 /\ pc = "idle" /\ Scripts[g.script] = SrcGosub) =>
           (rv = 1 /\ g.out = << <<"B">>, <<"A">> >>)

(* The RETURN of the example has resumed at PRINT "A"                  *)
C7_Witness ==
    /\ g.ev.op = "T_RETURN"
    /\ g.ev.gsp = 1
    /\ Scripts[g.script] = SrcGosub
    /\ g.out = << <<"B">> >>
    /\ pc = "stmt"
    /\ Scripts[m.s.src][m.s.pos].t = "T_IDENT"

(* C8: the indexes of both stacks stay within their arrays, no frame   *)
(* is read or written outside them, and GOSUB or FOR at the limit,     *)
(* RETURN on an empty GOSUB stack and NEXT on an empty FOR stack end   *)
(* the run or the callback with the error message set                  *)
C8_StacksBounded ==
    /\ m.gosub_sp \in 0..MAX_GOSUB
    /\ m.for_sp \in 0..MAX_FOR
    /\ ~g.oob
    /\ (g.ev.op = "T_GOSUB" /\ g.ev.active = 1 /\ g.ev.gsp >= MAX_GOSUB - 1) =>
           (g.ev.msg = "GOSUB stack overflow" /\ m.error_msg = g.ev.msg)
    /\ (g.ev.op = "T_FOR" /\ g.ev.fsp >= MAX_FOR) =>
           (g.ev.msg = "FOR stack overflow" /\ m.error_msg = g.ev.msg)
    /\ (g.ev.op = "T_RETURN" /\ g.ev.gsp <= 0) =>
           (g.ev.msg = "GOSUB stack underflow" /\ m.error_msg = g.ev.msg)
    /\ (g.ev.op = "T_NEXT" /\ g.ev.active = 1 /\ g.ev.fsp < 1) =>
           (g.ev.msg = "FOR stack underflow" /\ m.error_msg = g.ev.msg)
    /\ (IsStmt(g.ev.op) /\ g.ev.msg # "") =>
           (pc = "idle" /\ rv = 0) \/ (pc = "my_call" /\ Top(cstack).rv = 0)

(* A GOSUB at the limit of the stack has ended the run with an error   *)
C8_Witness ==
    /\ g.ev.op = "T_GOSUB"
    /\ g.ev.gsp = MAX_GOSUB - 1
    /\ pc = "idle"
    /\ rv = 0
    /\ m.error_msg = "GOSUB stack overflow"

(* C9: IF 0 THEN X = UNDEFINED_FUNC() runs without error: on a fresh   *)
(* instance mu_run() returns 1 and no message is set                   *)
C9_UntakenUndefinedCall ==
    (g.runs = 1 /\ pc = "idle" /\ Scripts[g.script] = SrcUndefFunc) =>
        (rv = 1 /\ m.error_msg = "")

(* C10: a call of stmt() with the active flag 0 changes no variable,   *)
(* writes nothing, invokes no function, and, unless it raises an       *)
(* error, leaves both stack depths as they were and transfers control  *)
(* nowhere: the cursor only moves forward in the same source (it stays *)
(* where it is at the end of the input, where there is no statement)   *)
C10_InactiveNoSideEffects ==
    (IsStmt(g.ev.op) /\ g.ev.active = 0) =>
        /\ m.vars = g.ev.vars
        /\ Len(g.out) = g.ev.nout
        /\ pc # "invoke"
        /\ g.ev.msg = "" =>
               /\ m.gosub_sp = g.ev.gsp
               /\ m.for_sp = g.ev.fsp
               /\ ~g.ev.jump
               /\ m.s.src = g.ev.s.src
               /\ m.s.pos >= g.ev.s.pos
               /\ g.ev.op # "T_END" => m.s.pos > g.ev.s.pos
               /\ pc \in {"stmt", "program"}

(* A GOSUB was processed with the flag 0 while the GOSUB stack held a  *)
(* frame                                                               *)
C10_Witness ==
    /\ g.ev.op = "T_GOSUB"
    /\ g.ev.active = 0
    /\ g.ev.msg = ""
    /\ g.ev.gsp > 0
    /\ pc = "stmt"

(* ------------------------------------------------------------------ *)
(* FOR and NEXT                                                        *)
(* ------------------------------------------------------------------ *)
IsPrefix(p, q) == Len(p) <= Len(q) /\ SubSeq(q, 1, Len(p)) = p

(* The lines PRINT(i) writes for i = a, then one nearer to b each time, *)
(* up to b                                                             *)
Range(a, b) ==
    [k \in 1..((IF a <= b THEN b - a ELSE a - b) + 1) |->
        sprintf_d(IF a <= b THEN a + (k - 1) ELSE a - (k - 1))]

(* C11: an active FOR v = a TO b without STEP, whose body changes      *)
(* neither v nor the operands, runs the body with v = a, then one      *)
(* nearer to b each time, up to b, once per value, ascending or        *)
(* descending; it leaves at the NEXT where v = b, and the depth of the *)
(* FOR stack is then what it was before the FOR.                       *)
C11_ForCountsToStop ==
    \A k \in 1..Len(ForCases) :
        (g.script = ForAt(k) /\ g.pre.active # 0 /\ g.pre.fsp < MAX_FOR) =>
            /\ IsPrefix(g.out, Range(ForCases[k][1], ForCases[k][2]))
            /\ pc \notin {"crash", "unmodelled"}
            /\ (g.ev.op = "T_NEXT" /\ m.for_sp # g.ev.fsp) =>
                    /\ mu_get_num(m, <<"i">>) = ForCases[k][2]
                    /\ m.for_sp = g.pre.fsp
                    /\ g.out = Range(ForCases[k][1], ForCases[k][2])
            /\ pc = "idle" =>
                    /\ rv = 1
                    /\ g.out = Range(ForCases[k][1], ForCases[k][2])
                    /\ mu_get_num(m, <<"i">>) = ForCases[k][2]
                    /\ m.for_sp = g.pre.fsp

(* The descending loop FOR i = 3 TO 1 has ended after 3, 2, 1 *)
C11_Witness ==
    /\ pc = "idle"
    /\ g.script = ForAt(2)
    /\ g.pre.active # 0
    /\ rv = 1
    /\ g.out = <<<<"3">>, <<"2">>, <<"1">>>>
    /\ m.for_sp = 0

(* Start, stop and step of the loop of source ForAt(k); without STEP   *)
(* the step is 1 toward stop                                           *)
Loops ==
    [k \in 1..Len(ForCases) |->
        <<ForCases[k][1], ForCases[k][2], IF ForCases[k][1] < ForCases[k][2] THEN 1 ELSE 0 - 1>>]
    \o StepCases

(* The number of steps from start that give stop, if there is one      *)
(* within the bound                                                    *)
Lands(lp) == {n \in 0..MaxCount : lp[1] + n * lp[3] = lp[2]}

Visited(lp, n) == [k \in 1..(n + 1) |-> sprintf_d(lp[1] + (k - 1) * lp[3])]

(* C12: NEXT leaves the loop if and only if the loop variable equals   *)
(* the stop value, re-evaluated from the header, exactly; otherwise it *)
(* adds step and re-enters the body.  A loop returns only if           *)
(* start + k * step = stop for some k >= 0, after the values up to     *)
(* stop; a loop that steps over stop, or away from it, never returns.  *)
C12_NextLeavesOnEquality ==
    /\ \A k \in 1..Len(Loops) :
            (g.script = ForAt(k) /\ g.pre.active # 0 /\ g.pre.fsp < MAX_FOR) =>
                LET old == mu_get_num([vars |-> g.ev.vars], <<"i">>)
                    now == mu_get_num(m, <<"i">>)
                IN  /\ (g.ev.op = "T_NEXT" /\ g.ev.msg = "") =>
                            IF old = Loops[k][2]
                            THEN m.for_sp = g.ev.fsp - 1 /\ now = old /\ ~g.ev.jump
                            ELSE /\ m.for_sp = g.ev.fsp
                                 /\ now = Add32(old, Loops[k][3])
                                 /\ g.ev.jump
                    /\ pc = "idle" =>
                            /\ Lands(Loops[k]) # {}
                            /\ \A n \in Lands(Loops[k]) : g.out = Visited(Loops[k], n)
                    /\ pc \notin {"crash", "unmodelled"}
    /\ (g.script = StopMovesAt /\ g.pre.active # 0 /\ g.pre.fsp < MAX_FOR /\ pc = "idle") =>
            g.out = <<<<"2">>>>

(* FOR i = 0 TO 3 STEP 2 has stepped from 2 to 4, over its stop, and    *)
(* printed 4 in the body it re-entered                                 *)
C12_Witness ==
    /\ g.script = StepAt(3)
    /\ g.pre.active # 0
    /\ g.out = <<<<"0">>, <<"2">>, <<"4">>>>
    /\ m.for_sp = 1

(* ------------------------------------------------------------------ *)
(* Labels                                                              *)
(* ------------------------------------------------------------------ *)

(* The places of source i where a line starts with a label: the first  *)
(* token of the source or the token after a newline, a number or an    *)
(* identifier followed by ':'                                          *)
LabelLines(i) ==
    {p \in 1..Len(Sources[i]) :
        /\ p = 1 \/ Sources[i][p - 1].t = "T_LF"
        /\ \/ Sources[i][p].t = "T_NUMBER"
           \/ /\ Sources[i][p].t = "T_IDENT"
              /\ p < Len(Sources[i])
              /\ Sources[i][p + 1].t = ":"}

(* The entry of the label table for the label at p: its name and the   *)
(* position just after the label                                       *)
LabelEntry(i, p) ==
    IF Sources[i][p].t = "T_NUMBER"
    THEN [name |-> Sources[i][p].tok, c |-> Ptr(i, p + 1)]
    ELSE [name |-> LowerStr(Sources[i][p].tok), c |-> Ptr(i, p + 2)]

(* Source i has a numeric label that is not above an earlier one *)
OutOfSequence(i) ==
    \E p, q \in LabelLines(i) :
        /\ p < q
        /\ Sources[i][p].t = "T_NUMBER"
        /\ Sources[i][q].t = "T_NUMBER"
        /\ atoi(Sources[i][q].tok) <= atoi(Sources[i][p].tok)

(* Source i defines a label name on two lines *)
DuplicateLabel(i) ==
    \E p, q \in LabelLines(i) : p < q /\ LabelEntry(i, p).name = LabelEntry(i, q).name

(* The current run is of a source with labels, on an instance whose    *)
(* label table was empty                                               *)
LabelRun(i) ==
    /\ g.script = i
    /\ i \in LabelsAt(1)..LabelsAt(Len(LabelScripts))
    /\ g.pre.labels = <<>>

(* C13: numeric labels must strictly increase through the source: a    *)
(* run of a source with a numeric label less than or equal to an       *)
(* earlier one fails with the ordering error and executes no           *)
(* statement, and the scan accepts every source whose numeric labels   *)
(* strictly increase.                                                  *)
C13_NumericLabelsIncrease ==
    \A i \in LangScripts :
        LabelRun(i) =>
            IF OutOfSequence(i)
            THEN /\ pc = "idle"
                 /\ rv = 0
                 /\ m.error_msg = "Label out of sequence"
                 /\ g.out = <<>>
            ELSE ~(g.ev.op = "mu_run" /\ pc = "idle" /\ ~DuplicateLabel(i))

(* C14: a source that defines the same numeric or textual label on two *)
(* lines fails to run, and the label table never holds two entries     *)
(* with the same name.                                                 *)
C14_DuplicateLabelsFatal ==
    /\ \A j, k \in 1..Len(m.labels) : j # k => m.labels[j].name # m.labels[k].name
    /\ \A i \in LangScripts :
            (LabelRun(i) /\ DuplicateLabel(i)) =>
                pc = "idle" /\ rv = 0 /\ g.out = <<>>

(* C15: the label scan records a label for exactly the lines that      *)
(* start with a number or with an identifier followed by ':', with the *)
(* position just after the label, and leaves the cursor where it was.  *)
C15_LabelsOfLineStarts ==
    \A i \in LangScripts :
        (LabelRun(i) /\ g.ev.op = "mu_run" /\ pc = "program") =>
            /\ {m.labels[k] : k \in 1..Len(m.labels)} = {LabelEntry(i, p) : p \in LabelLines(i)}
            /\ Len(m.labels) = Cardinality(LabelLines(i))
            /\ m.s = Ptr(i, 1)

(* ------------------------------------------------------------------ *)
(* ON                                                                  *)
(* ------------------------------------------------------------------ *)

(* The first ':' of source i: in the sources of ON, the token after    *)
(* the list of labels                                                  *)
FirstColon(i) ==
    CHOOSE p \in 1..Len(Sources[i]) :
        Sources[i][p].t = ":" /\ \A q \in 1..(p - 1) : Sources[i][q].t # ":"

(* The position just after the definition of label name in source i *)
LabelTarget(i, name) ==
    LabelEntry(i, CHOOSE p \in LabelLines(i) : LabelEntry(i, p).name = name).c

(* The lines a run of the source of ON case k prints *)
OnOutput(k) ==
    CASE OnCases[k][1] \notin {0, 1} -> <<<<"r">>, <<"n">>>>
      [] OnCases[k][2] = "T_GOTO" -> <<<<IF OnCases[k][1] = 0 THEN "a" ELSE "b">>>>
      [] OTHER -> <<<<IF OnCases[k][1] = 0 THEN "a" ELSE "b">>, <<"r">>, <<"n">>>>

(* C16: ON expr GOTO/GOSUB l0, ..., ln-1 with expr = k jumps to lk     *)
(* when 0 <= k < n; otherwise it continues after the list, without a   *)
(* jump and with the GOSUB stack unchanged.  ON .. GOSUB pushes the    *)
(* position after the whole list, so that RETURN resumes after the ON. *)
C16_OnSelectsLabel ==
    \A k \in 1..Len(OnCases) :
        (g.script = OnAt(k) /\ g.pre.active # 0 /\ g.pre.labels = <<>>
            /\ g.pre.gsp < MAX_GOSUB - 1) =>
            /\ pc \notin {"crash", "unmodelled"}
            /\ IsPrefix(g.out, OnOutput(k))
            /\ pc = "idle" => (rv = 1 /\ g.out = OnOutput(k) /\ m.gosub_sp = g.pre.gsp)
            /\ g.ev.op = "T_ON" =>
                    IF OnCases[k][1] \in {0, 1}
                    THEN /\ m.s = LabelTarget(OnAt(k), <<IF OnCases[k][1] = 0 THEN "a" ELSE "b">>)
                         /\ IF OnCases[k][2] = "T_GOSUB"
                            THEN /\ m.gosub_sp = g.ev.gsp + 1
                                 /\ m.gosub_stack[g.ev.gsp] = Ptr(OnAt(k), FirstColon(OnAt(k)))
                            ELSE m.gosub_sp = g.ev.gsp /\ g.shadow = g.ev.shadow
                    ELSE /\ m.s = Ptr(OnAt(k), FirstColon(OnAt(k)) + 1)
                         /\ pc = "stmt"
                         /\ m.gosub_sp = g.ev.gsp
                         /\ g.shadow = g.ev.shadow

(* ON 0 GOSUB a, b has gone to a, returned to the ':' after the list   *)
(* and run the statements that follow                                  *)
C16_Witness ==
    /\ g.script = OnAt(6)
    /\ g.pre.active # 0
    /\ pc = "idle"
    /\ rv = 1
    /\ g.out = <<<<"a">>, <<"r">>, <<"n">>>>

(* ------------------------------------------------------------------ *)
(* HALT                                                                *)
(* ------------------------------------------------------------------ *)

(* C17: after an extension function has called mu_halt() during a run, *)
(* the interpreter behaves as if END had been reached: no further      *)
(* statement of the script is executed, and mu_run() returns 1.        *)
C17_HaltEndsRun ==
    g.halted >= 0 =>
        /\ pc # "crash"
        /\ ~(IsStmt(g.ev.op) /\ g.ev.halted >= 0)
        /\ Len(g.out) = g.halted
        /\ pc = "idle" => rv = 1

(* ------------------------------------------------------------------ *)
(* Function calls                                                      *)
(* ------------------------------------------------------------------ *)

(* The registrations of mu_create(), of main() and the first n of the  *)
(* host's later ones, in the order they were made                      *)
Registrations(n) == StdFuns \o MainFuns \o SubSeq(g.regs, 1, n)

(* The callback of the last of the registrations ks of all: "none"     *)
(* when there is none                                                  *)
LastOf(all, ks) ==
    IF ks = {} THEN "none" ELSE all[CHOOSE k \in ks : \A j \in ks : j <= k][2]

(* The callback the host had registered last under exactly this name   *)
(* when the run began: "none" when it had never registered the name    *)
Registered(name) ==
    LET all == Registrations(g.pre.nregs)
    IN  LastOf(all, {k \in 1..Len(all) : all[k][1] = name})

(* 1, 2, ..., n printed one after the other *)
RECURSIVE NumbersTo(_)
NumbersTo(n) == IF n = 0 THEN <<>> ELSE NumbersTo(n - 1) \o sprintf_d(n)

(* The run has failed with the message msg and has printed nothing *)
CallFailed(msg) == rv = 0 /\ m.error_msg = msg /\ g.out = <<>>

(* C18: a call evaluates its arguments from left to right before the   *)
(* function is invoked; MAX_PARAMS arguments are accepted, one more is  *)
(* a fatal error and nothing is written past argv; in active mode a    *)
(* call of a name that was never registered, or was registered with a  *)
(* NULL callback, is a fatal error and invokes nothing.                *)
C18_CallArguments ==
    /\ m.argc <= MAX_PARAMS
    /\ Len(m.argv) <= MAX_PARAMS
    /\ (g.script \in HostScripts /\ g.pre.active # 0) =>
            /\ pc \notin {"crash", "unmodelled"}
            /\ (pc = "idle" /\ g.script = CallAt(1)) =>
                    CallFailed("Read from undefined variable")
            /\ (pc = "idle" /\ g.script = CallAt(2)) =>
                    CallFailed("Call to undefined function")
            /\ (pc = "idle" /\ g.script = CallAt(3)) =>
                    CASE Registered(f_print) = "my_print" ->
                            /\ rv = 1
                            /\ g.out = <<NumbersTo(MAX_PARAMS)>>
                            /\ m.argc = MAX_PARAMS
                            /\ m.argv = [k \in 1..MAX_PARAMS |-> V_int(k)]
                      [] Registered(f_print) = "my_halt" -> rv = 1 /\ g.out = <<>>
                      [] OTHER -> CallFailed("Call to undefined function")
            /\ (pc = "idle" /\ g.script = CallAt(4)) =>
                    CallFailed("Too many parameters to function")
            /\ (pc = "idle" /\ g.script = CallAt(6)) =>
                    CASE Registered(f_print) = "my_print" -> rv = 1 /\ g.out = << <<"p">> >>
                      [] Registered(f_print) = "my_halt" -> rv = 1 /\ g.out = <<>>
                      [] OTHER -> CallFailed("Call to undefined function")

(* A call with MAX_PARAMS + 1 arguments has ended its run with the     *)
(* error, the last argument not evaluated                              *)
C18_Witness ==
    /\ g.script = CallAt(4)
    /\ g.pre.active # 0
    /\ pc = "idle"
    /\ rv = 0
    /\ m.error_msg = "Too many parameters to function"

(* ------------------------------------------------------------------ *)
(* mu_add_func                                                         *)
(* ------------------------------------------------------------------ *)

(* The callback registered last, up to now, under exactly this name *)
RegisteredNow(name) ==
    LET all == Registrations(Len(g.regs))
    IN  LastOf(all, {k \in 1..Len(all) : all[k][1] = name})

(* The callback the host had registered last, when the run began,      *)
(* under this name in any letter case                                  *)
RegisteredAnyCase(name) ==
    LET all == Registrations(g.pre.nregs)
    IN  LastOf(all, {k \in 1..Len(all) : LowerStr(all[k][1]) = LowerStr(name)})

(* What the run of SHOW("b") : show("c") : Show("d") has done when show *)
(* is bound to the callback fun                                        *)
ShowRan(fun) ==
    CASE fun = "my_print" -> rv = 1 /\ g.out = << <<"b">>, <<"c">>, <<"d">> >>
      [] fun = "my_halt" -> rv = 1 /\ g.out = <<>>
      [] OTHER -> CallFailed("Call to undefined function")

(* C19 as stated: a function registered under a name in any letter     *)
(* case is reached by a script call written in any letter case.        *)
C19_AnyCaseRegistered ==
    (g.script = CallAt(5) /\ g.pre.active # 0 /\ pc = "idle") =>
        ShowRan(RegisteredAnyCase(f_show))

(* C19: mu_add_func() installs a function under the name as given,     *)
(* replaces the callback of a name that is registered already, so that *)
(* the table keeps one entry per name and the latest callback is the   *)
(* one called, and disables the function when the callback is NULL.    *)
(* A script call in any letter case reaches the function registered    *)
(* under the lower-case name; a name registered with an upper-case     *)
(* letter is not reached.                                              *)
C19_RegisterFunction ==
    /\ \A j, k \in 1..Len(m.funcs) : m.funcs[j].name = m.funcs[k].name => j = k
    /\ pc # "created" =>
            \A name \in HostNames \cup {MainFuns[k][1] : k \in 1..Len(MainFuns)} :
                IF RegisteredNow(name) = "none"
                THEN find_var(m.funcs, name) = 0
                ELSE /\ find_var(m.funcs, name) # 0
                     /\ m.funcs[find_var(m.funcs, name)].fun = RegisteredNow(name)
    /\ (g.script = CallAt(5) /\ g.pre.active # 0 /\ pc = "idle") =>
            ShowRan(Registered(f_show))

(* show was registered with my_halt and then with my_print, and the    *)
(* calls SHOW, show and Show have all printed                          *)
C19_Witness ==
    /\ g.script = CallAt(5)
    /\ g.pre.active # 0
    /\ g.pre.nregs = 2
    /\ g.regs[1] = <<f_show, "my_halt">>
    /\ g.regs[2] = <<f_show, "my_print">>
    /\ pc = "idle"
    /\ rv = 1
    /\ g.out = << <<"b">>, <<"c">>, <<"d">> >>

(* ------------------------------------------------------------------ *)
(* Comparisons                                                         *)
(* ------------------------------------------------------------------ *)

(* The value of an operand of CompOperands *)
OperandVal(k) == IF k.t = "T_NUMBER" THEN V_int(atoi(k.tok)) ELSE V_str(k.tok)

(* Is the relation t true of the sign r of a comparison *)
Holds(t, r) ==
    \/ t = "=" /\ r = 0
    \/ t = "<" /\ r < 0
    \/ t = ">" /\ r > 0
    \/ t = "~" /\ r # 0

(* a t b, compared as strings if either of a and b is a string and as  *)
(* integers if both are integers                                       *)
EitherString(t, a, b) ==
    IF a.type = "mu_str" \/ b.type = "mu_str"
    THEN Bool(Holds(t, strcmp(par_as_str(a), par_as_str(b))))
    ELSE Bool(Holds(t, a.i - b.i))

(* What PRINT(a = b, a < b, a > b, a ~ b) prints under the rule above *)
CompOutput(k) ==
    LET a == OperandVal(CompCases[k][1])
        b == OperandVal(CompCases[k][2])
    IN  << sprintf_d(EitherString("=", a, b)) \o sprintf_d(EitherString("<", a, b))
             \o sprintf_d(EitherString(">", a, b)) \o sprintf_d(EitherString("~", a, b)) >>

(* C20: a comparison (= < > ~) compares its operands as strings if     *)
(* either operand is a string, and as integers only when both are      *)
(* integers; the result is the integer 1 or 0.                         *)
C20_CompareEitherString ==
    \A k \in 1..Len(CompCases) :
        (g.script = CompAt(k) /\ g.pre.active # 0 /\ pc = "idle") =>
            /\ rv = 1
            /\ g.out = CompOutput(k)
            /\ \A j \in 1..m.argc : m.argv[j] \in {V_int(0), V_int(1)}

(* ------------------------------------------------------------------ *)
(* Coercion of operands                                                *)
(* ------------------------------------------------------------------ *)

(* The index of the last character of the longest run of digits of str *)
(* that starts at k: k - 1 when there is no digit at k                 *)
DigitsEnd(str, k) ==
    CHOOSE j \in (k - 1)..Len(str) :
        /\ \A q \in k..j : isdigit(str[q])
        /\ (j = Len(str) \/ ~isdigit(str[j + 1]))

(* The number the digits str[k..j] write in base 10 *)
RECURSIVE DigitsValue(_, _, _)
DigitsValue(str, k, j) ==
    IF j < k THEN 0 ELSE 10 * DigitsValue(str, k, j - 1) + (IndexIn(Digits, str[j]) - 1)

(* The value of the leading decimal-integer prefix of str (an optional *)
(* sign and digits), 0 when it has none                                *)
LeadingInt(str) ==
    LET signed == Len(str) > 0 /\ str[1] \in {"-", "+"}
        k == IF signed THEN 2 ELSE 1
        n == DigitsValue(str, k, DigitsEnd(str, k))
    IN  IF signed /\ str[1] = "-" THEN 0 - n ELSE n

(* An operand token as the value atom() gives it *)
TokenVal(k) == IF k.t = "T_NUMBER" THEN V_int(LeadingInt(k.tok)) ELSE V_str(k.tok)

ToInt(v) == IF v.type = "mu_int" THEN v.i ELSE LeadingInt(v.s)

ToStr(v) == IF v.type = "mu_str" THEN v.s ELSE sprintf_d(v.i)

Abs(n) == IF n < 0 THEN 0 - n ELSE n

(* The quotient of C: truncated toward zero *)
Quot(x, y) ==
    IF (x < 0) = (y < 0) THEN Abs(x) \div Abs(y) ELSE 0 - (Abs(x) \div Abs(y))

(* What PRINT(a + b, a - b, a * b, a AND b, a OR b, a & b) is called with *)
ArithArgs(a, b) ==
    LET x == ToInt(a)
        y == ToInt(b)
    IN  <<V_int(x + y), V_int(x - y), V_int(x * y), V_int(BitAnd(x, y)), V_int(BitOr(x, y)),
          V_str(ToStr(a) \o ToStr(b))>>

(* What PRINT(a / b, a % b) is called with, b not 0 *)
DivArgs(a, b) ==
    LET x == ToInt(a)
        y == ToInt(b)
    IN  <<V_int(Quot(x, y)), V_int(x - y * Quot(x, y))>>

ZeroDivisor(k) ==
    IF k <= Len(ArithCases) THEN ToInt(TokenVal(ArithCases[k][2])) = 0 ELSE TRUE

(* The variable x holds the integer n *)
XIs(n) ==
    /\ find_var(m.vars, <<"x">>) # 0
    /\ m.vars[find_var(m.vars, <<"x">>)].type = "mu_int"
    /\ m.vars[find_var(m.vars, <<"x">>)].i = n

(* C22: x / y and x % y with y converted to 0 raise the fatal error    *)
(* "Divide by zero": the run returns 0, the statement that holds the   *)
(* expression has no effect (PRINT is not invoked, x keeps the 5 it    *)
(* had) and no later statement executes.                               *)
C22_DivideByZero ==
    \A k \in 1..Len(DivScripts) :
        (g.script = DivAt(k) /\ ZeroDivisor(k)) =>
            /\ pc \notin {"crash", "unmodelled"}
            /\ g.out = <<>>
            /\ pc = "idle" =>
                    /\ rv = 0
                    /\ m.error_msg = "Divide by zero"
                    /\ (k > Len(ArithCases) /\ g.pre.active # 0) => XIs(5)

(* x = 5 : x = 7 / 0 : PRINT("n") has failed with x still 5 *)
C22_Witness ==
    /\ g.script = DivAt(Len(ArithCases) + 1)
    /\ g.pre.active # 0
    /\ pc = "idle"
    /\ rv = 0
    /\ m.error_msg = "Divide by zero"
    /\ XIs(5)

(* ------------------------------------------------------------------ *)
(* The variable store                                                  *)
(* ------------------------------------------------------------------ *)

(* What a name without an entry maps to *)
NoEntry == [type |-> "none", i |-> 0, s |-> <<>>]

(* The names of the entries of a table *)
NamesOf(tbl) == {tbl[k].name : k \in 1..Len(tbl)}

(* A table as the map it stands for: each name to the value found for it *)
Store(tbl) ==
    [name \in NamesOf(tbl) \cup VarNames |->
        IF find_var(tbl, name) = 0 THEN NoEntry
        ELSE [type |-> tbl[find_var(tbl, name)].type,
              i |-> tbl[find_var(tbl, name)].i,
              s |-> tbl[find_var(tbl, name)].s]]

(* The map st after val was written to name *)
Written(st, name, val) == [n \in DOMAIN st \cup {name} |-> IF n = name THEN val ELSE st[n]]

(* What a run of source k of VarScripts does to the map st: the map    *)
(* after it, what mu_run() returns and what is printed                 *)
VarEffect(k, st) ==
    LET x == <<"x">>
        y == <<"y","$">>
    IN  CASE k = 1 ->
                [st |-> Written(Written(st, x, V_int(1)), y, V_str(<<"s">>)), rv |-> 1,
                 out |-> <<>>]
          [] k = 2 ->
                [st |-> Written(Written(st, x, V_str(<<"t">>)), y, V_int(2)), rv |-> 1,
                 out |-> <<>>]
          [] k = 3 ->
                IF st[x] = NoEntry THEN [st |-> st, rv |-> 0, out |-> <<>>]
                ELSE [st |-> Written(Written(st, y, st[x]), x, V_str(ToStr(st[x]) \o <<"z">>)),
                      rv |-> 1, out |-> <<>>]
          [] k = 4 -> [st |-> Written(st, x, V_int(9)), rv |-> 0, out |-> <<>>]
          [] k = 5 ->
                IF st[x] = NoEntry \/ st[y] = NoEntry THEN [st |-> st, rv |-> 0, out |-> <<>>]
                ELSE [st |-> st, rv |-> 1, out |-> <<ToStr(st[x]) \o ToStr(st[y])>>]

(* C23: the variable table holds one tagged value per name, shared by  *)
(* integer and string use.  After mu_set_num(), mu_set_str(), script   *)
(* assignments and runs, failed ones too, a name has at most one entry *)
(* and reads as the value and type written last; what one run wrote    *)
(* the next run finds unchanged.                                       *)
C23_OneValuePerName ==
    /\ \A j, k \in 1..Len(m.vars) : m.vars[j].name = m.vars[k].name => j = k
    /\ g.ev.op \in {"mu_set_num", "mu_set_str"} =>
            Store(m.vars) =
                Written(Store(g.ev.vars), g.calls[Len(g.calls)].name, g.calls[Len(g.calls)].val)
    /\ g.ev.op = "mu_run" => m.vars = g.ev.vars
    /\ \A k \in 1..Len(VarScripts) :
            (g.script = VarAt(k) /\ g.pre.active # 0 /\ pc = "idle"
                /\ g.ev.op \notin {"mu_set_num", "mu_set_str"}) =>
                /\ Store(m.vars) = VarEffect(k, Store(g.pre.vars)).st
                /\ rv = VarEffect(k, Store(g.pre.vars)).rv
                /\ g.out = VarEffect(k, Store(g.pre.vars)).out

(* A first run set x to 1; in a second run y$ = x : x = y$ & "z" has   *)
(* made y$ the integer 1 and x the string "1z"                         *)
C23_Witness ==
    /\ g.runs = 2
    /\ g.script = VarAt(3)
    /\ pc = "idle"
    /\ rv = 1
    /\ g.ev.op \notin {"mu_set_num", "mu_set_str"}
    /\ Store(g.pre.vars)[<<"x">>] = V_int(1)
    /\ Store(m.vars)[<<"y","$">>] = V_int(1)
    /\ Store(m.vars)[<<"x">>] = V_str(<<"1","z">>)

(* ------------------------------------------------------------------ *)
(* The accessors                                                       *)
(* ------------------------------------------------------------------ *)

(* The call the host made last, and the one before it *)
LastCall == g.calls[Len(g.calls)]

CallBefore == g.calls[Len(g.calls) - 1]

(* The host has just made a call of op, right after a call of before *)
Followed(before, op) ==
    /\ Len(g.calls) = 2
    /\ g.ev.op = op
    /\ LastCall.op = op
    /\ CallBefore.op = before
    /\ CallBefore.name = LastCall.name

C25_RoundTrip ==
    \A k \in 1..Len(RoundInts) :
        (g.script = RoundAt(k) /\ g.pre.active # 0 /\ pc = "idle") =>
            /\ rv = 1
            /\ find_var(m.vars, <<"y","$">>) # 0
            /\ m.vars[find_var(m.vars, <<"y","$">>)].type = "mu_str"
            /\ m.argv = <<V_int(RoundInts[k])>>

(* INT_MIN has been to "-2147483648" and back *)
C25_Witness ==
    /\ g.script = RoundAt(Len(RoundInts))
    /\ g.pre.active # 0
    /\ pc = "idle"
    /\ m.vars[find_var(m.vars, <<"y","$">>)].s = <<"-","2","1","4","7","4","8","3","6","4","8">>
    /\ m.argv = <<V_int(INT_MIN)>>

(* ------------------------------------------------------------------ *)
(* The result of a run                                                 *)
(* ------------------------------------------------------------------ *)

(* The source of the run from the token the excerpt starts at *)
FailedAt == Chars(Sources[g.script], m.error_text.pos)

(* C26: run returns 1 exactly when the script reaches END or the end   *)
(* of input without a fatal error; when a fatal error is raised it     *)
(* returns 0, the message of the error can be retrieved, and the       *)
(* excerpt starts at a token of the source, holds no newline, goes up  *)
(* to the next newline and is at most MAX_ERROR_TEXT - 1 characters.   *)
C26_RunResult ==
    /\ pc # "crash"
    /\ (pc = "idle" /\ g.runs > 0) =>
          /\ rv \in {0, 1}
          /\ rv = 1 <=> g.ev.msg = ""
          /\ rv = 0 =>
                /\ m.error_msg = g.ev.msg
                /\ m.error_text.src = g.script
                /\ m.error_text.pos \in 1..Len(Sources[g.script])
                /\ LET e == mu_error_text(m) IN
                     /\ Len(e) <= MAX_ERROR_TEXT - 1
                     /\ Len(e) <= Len(FailedAt)
                     /\ e = SubSeq(FailedAt, 1, Len(e))
                     /\ \A j \in 1..Len(e) : e[j] # "\n"
                     /\ Len(e) < MAX_ERROR_TEXT - 1 =>
                           /\ Len(e) < Len(FailedAt)
                           /\ FailedAt[Len(e) + 1] = "\n"

(* ------------------------------------------------------------------ *)
(* TRIM$()                                                             *)
(* ------------------------------------------------------------------ *)

(* str without its leading and its trailing whitespace *)
RECURSIVE DropTrailing(_)
DropTrailing(str) ==
    IF str # <<>> /\ isspace(str[Len(str)]) THEN DropTrailing(SubSeq(str, 1, Len(str) - 1))
    ELSE str

Trimmed(str) == DropTrailing(SubSeq(str, SkipSpace(str, 1), Len(str)))

(* C28: TRIM$(x$) is x$ without its leading and its trailing            *)
(* whitespace, the characters in between unchanged: for an empty       *)
(* string, a string of whitespace, and a string whose content is one   *)
(* character as well.                                                  *)
C28_TrimBothEnds ==
    \A k \in 1..Len(TrimInputs) :
        (g.script = TrimAt(k) /\ g.pre.active # 0 /\ pc = "idle") =>
            /\ rv = 1
            /\ find_var(m.vars, <<"y","$">>) # 0
            /\ m.vars[find_var(m.vars, <<"y","$">>)].type = "mu_str"
            /\ m.vars[find_var(m.vars, <<"y","$">>)].s = Trimmed(TrimInputs[k])

(* ------------------------------------------------------------------ *)
(* IF and the active flag                                              *)
(* ------------------------------------------------------------------ *)

(* The activations of stmt() that the last step returned through *)
Completed == SubSeq(g.ev.cs, Len(cstack) + 1, Len(g.ev.cs))

(* The value of the integer variable of that name *)
IntOf(name) == LET k == find_var(m.vars, name) IN
    IF k # 0 /\ m.vars[IF k # 0 THEN k ELSE 1].type = "mu_int" THEN m.vars[k].i ELSE 0 - 1

(* C29: IF expr THEN stmt executes the nested statement and the        *)
(* statements chained to it with ':' exactly when the flag was active  *)
(* on entry and expr coerces to a non-zero integer; when the IF        *)
(* completes without a fatal error, by falling through or by a jump    *)
(* out of the nested statement, the active flag is what it was on      *)
(* entry.                                                              *)
C29_IfRestoresActive ==
    /\ (g.ev.op = "T_IF" /\ g.ev.msg = "" /\ pc = "stmt") =>
          /\ Top(cstack) = [k |-> "if", save |-> g.ev.active]
          /\ g.ev.active = 0 => m.active = 0
    /\ (g.ev.msg = "" /\ pc \in {"program", "stmt", "idle"} /\ Len(cstack) < Len(g.ev.cs)) =>
          \A j \in 1..Len(Completed) :
              (Completed[j].k = "if" /\ \A i \in 1..(j - 1) : Completed[i].k # "if") =>
                  m.active = Completed[j].save
    /\ \A k \in 1..Len(IfCases) :
          (g.script = IfAt(k) /\ g.pre.active # 0 /\ pc = "idle") =>
              /\ rv = 1
              /\ m.active = g.pre.active
              /\ <<IntOf(<<"x">>), IntOf(<<"y">>), IntOf(<<"z">>)>>
                     = <<IfCases[k][2], IfCases[k][3], IfCases[k][4]>>

(* IF 1 THEN x = 1 : GOTO out has left the IF by the jump, with x set     *)
(* and y not                                                           *)
C29_Witness ==
    /\ g.script = IfAt(12)
    /\ g.pre.active # 0
    /\ pc = "idle"
    /\ m.active = g.pre.active
    /\ <<IntOf(<<"x">>), IntOf(<<"y">>), IntOf(<<"z">>)>> = <<1, 0, 3>>

(* ------------------------------------------------------------------ *)
(* FOR in inactive mode                                                *)
(* ------------------------------------------------------------------ *)

(* The FOR of the untaken IF of a source: the token after the first    *)
(* THEN                                                                *)
RECURSIVE UntakenFor(_, _)
UntakenFor(toks, p) == IF toks[p].t = "T_THEN" THEN p + 1 ELSE UntakenFor(toks, p + 1)

(* The NEXT that matches a FOR: the first NEXT at or after token p     *)
(* that is not paired with a FOR between them (open counts the FORs    *)
(* that wait for their NEXT)                                           *)
RECURSIVE MatchingNext(_, _, _)
MatchingNext(toks, p, open) ==
    IF toks[p].t = "T_FOR" THEN MatchingNext(toks, p + 1, open + 1)
    ELSE IF toks[p].t = "T_NEXT"
         THEN IF open = 0 THEN p ELSE MatchingNext(toks, p + 1, open - 1)
    ELSE MatchingNext(toks, p + 1, open)

ForAtToken(k) == UntakenFor(SkipScripts[k], 1)

NextAtToken(k) == MatchingNext(SkipScripts[k], ForAtToken(k) + 1, 0)

(* The skip of a FOR is in progress: its activation waits for stmt() *)
Skipping == \E j \in 1..Len(cstack) : cstack[j].k = "for"

(* C30: a FOR reached in inactive mode skips its body up to the NEXT   *)
(* that matches it, a FOR nested in the body being paired with its own *)
(* NEXT; it executes nothing in between, does not set the loop         *)
(* variable, leaves the depth of the FOR stack as it was, and          *)
(* execution goes on after that NEXT.                                  *)
C30_InactiveForSkips ==
    \A k \in 1..Len(SkipCases) :
        (g.script = SkipAt(k) /\ g.pre.active # 0 /\ g.pre.fsp = 0) =>
            /\ (Skipping /\ pc \in {"program", "stmt"}) =>
                  /\ m.s.pos \in (ForAtToken(k) + 1)..NextAtToken(k)
                  /\ m.active = 0
                  /\ m.for_sp = SkipCases[k][2]
                  /\ <<IntOf(<<"i">>), IntOf(<<"x">>)>> = <<5, 0>>
                  /\ g.out = <<>>
            /\ (g.ev.msg = "" /\ pc \in {"program", "stmt"} /\ ~Skipping
                   /\ \E j \in 1..Len(Completed) : Completed[j].k = "for") =>
                  /\ m.s.pos = NextAtToken(k) + 1
                  /\ m.for_sp = SkipCases[k][2]
            /\ pc = "idle" =>
                  /\ rv = 1
                  /\ g.out = << <<"d">> >>
                  /\ <<IntOf(<<"i">>), IntOf(<<"x">>)>> = <<5, 0>>
                  /\ m.for_sp = 0
                  /\ m.active = g.pre.active

(* ------------------------------------------------------------------ *)
(* The pushback of the lexer                                           *)
(* ------------------------------------------------------------------ *)

(* C27: after a token is read anywhere in a source that the lexer      *)
(* accepts, a pushback and a second read yield the same kind and the   *)
(* same text and leave the cursor where the first read left it; there  *)
(* is one level of pushback: a second pushback without a read in       *)
(* between changes nothing.                                            *)
C27_PushbackIdempotent ==
    /\ (pc = "lex" /\ g.ev.op = "tokenize") =>
          LET again == tokenize_chars(tok_reset(Ctx(m, cstack, g, rv))) IN
              /\ Ok(again)
              /\ Read(again) = LastCall.got
              /\ Read(again) = [t |-> LastCall.got.t, token |-> m.token, s |-> m.s]
    /\ (Followed("tok_reset", "tokenize") /\ CallBefore.val # NoRead) =>
          LastCall.got = CallBefore.val
    /\ Followed("tok_reset", "tok_reset") =>
          /\ LastCall.got = CallBefore.got
          /\ LastCall.val = CallBefore.val
          /\ m.s = LastCall.got.s
    /\ pc = "lex" =>
          tok_reset(tok_reset(Ctx(m, cstack, g, rv))).m = tok_reset(Ctx(m, cstack, g, rv)).m

(* The string "a b", which follows a continued line, was read, pushed  *)
(* back and read again                                                 *)
C27_Witness ==
    /\ Followed("tok_reset", "tokenize")
    /\ CallBefore.val = LastCall.got
    /\ LastCall.got.t = "T_STRING"
    /\ LastCall.got.token = <<"a", " ", "b">>
    /\ m.last.pos < m.s.pos

(* ------------------------------------------------------------------ *)
(* Missing symbols in a statement that is not executed                 *)
(* ------------------------------------------------------------------ *)

(* C31: a statement parsed with the active flag 0 raises no error for  *)
(* a missing symbol: a read of an undefined variable gives the integer *)
(* 0, and a GOTO or GOSUB that names a label the source does not       *)
(* define raises no error and does not jump                            *)
C31_InactiveMissingSymbol ==
    /\ (IsStmt(g.ev.op) /\ g.ev.active = 0) =>
          g.ev.msg \notin {"Read from undefined variable", "GOTO/GOSUB to undefined label"}
    /\ (g.ev.op \in {"T_GOTO", "T_GOSUB"} /\ g.ev.active = 0) =>
          /\ g.ev.msg = ""
          /\ ~g.ev.jump
          /\ m.gosub_sp = g.ev.gsp
    /\ (pc = "stmt" /\ m.active = 0 /\ find_var(m.vars, <<"n","o","v","a","r">>) = 0) =>
          LET read == atom_var(Ctx(m, cstack, g, rv), <<"n","o","v","a","r">>) IN
              Ok(read) /\ read.v = V_int(0)
    /\ \A k \in 1..Len(MissScripts) :
          (g.script = MissAt(k) /\ g.pre.active # 0 /\ pc = "idle") =>
              rv = 1 /\ IntOf(<<"z">>) = 1

(* ------------------------------------------------------------------ *)
(* The release of the arguments of a call                              *)
(* ------------------------------------------------------------------ *)

(* The arguments of a finished call that are strings, and the elements *)
(* of its array that the loop after the call released                  *)
StringArgs(call) == {i \in 1..Len(call.params) : call.params[i].type = "mu_str"}

Released(call) == {i \in 1..call.argc : i > Len(call.params) \/ call.params[i].type = "mu_str"}

(* C32: after a call of a function has finished, the string arguments  *)
(* evaluated for that call are released, each of them and nothing      *)
(* else, also when the function called back into the script and the    *)
(* subroutine called functions with another number of arguments        *)
C32_ArgumentsReleased ==
    /\ \A j \in 1..Len(g.ev.rel) :
          /\ g.ev.rel[j].argc <= Len(g.ev.rel[j].params)
          /\ Released(g.ev.rel[j]) = StringArgs(g.ev.rel[j])
    /\ g.ev.op = "my_call_return" => pc # "crash"

(* ------------------------------------------------------------------ *)
(* The stacks at the start of a run                                    *)
(* ------------------------------------------------------------------ *)

(* C33: every run starts with an empty GOSUB stack and an empty FOR    *)
(* stack: a RETURN or NEXT in active mode at the depth the run started *)
(* with raises the underflow error, and the cursor of a run never      *)
(* points into the source of an earlier run                            *)
C33_RunStartsWithEmptyStacks ==
    /\ (g.ev.op = "mu_run" /\ pc = "program") => (m.gosub_sp = 0 /\ m.for_sp = 0)
    /\ (pc \in {"program", "stmt", "invoke", "my_call"} /\ m.s # NULL) => m.s.src = g.script
    /\ (g.ev.op = "T_RETURN" /\ g.ev.active # 0 /\ g.ev.gsp = g.pre.gsp) =>
          g.ev.msg = "GOSUB stack underflow"
    /\ (g.ev.op = "T_NEXT" /\ g.ev.active # 0 /\ g.ev.fsp = g.pre.fsp) =>
          g.ev.msg = "FOR stack underflow"

(* ------------------------------------------------------------------ *)
(* The read accessors and the variable store                           *)
(* ------------------------------------------------------------------ *)

(* What atom() returns for the variable at index k of a table *)
ValueAt(tbl, k) == IF tbl[k].type = "mu_int" THEN V_int(tbl[k].i) ELSE V_str(tbl[k].s)

(* C34: mu_get_num() and mu_get_str() leave the variables as they      *)
(* were: every variable has the type and value it had before the call, *)
(* and a comparison of it with 10 in a script gives what it would have *)
(* given without the call                                              *)
C34_ReadAccessorsKeepStore ==
    g.ev.op \in {"mu_get_num", "mu_get_str"} =>
        /\ m.vars = g.ev.vars
        /\ \A k \in 1..Len(g.ev.vars) : \A t \in {"=", "<", ">", "~"} :
              k <= Len(m.vars) /\
              Compare(t, ValueAt(m.vars, IF k <= Len(m.vars) THEN k ELSE 1), V_int(10))
                  = Compare(t, ValueAt(g.ev.vars, k), V_int(10))

(* ------------------------------------------------------------------ *)
(* The active flag and the FOR stack across a callback                 *)
(* ------------------------------------------------------------------ *)

(* C35: when mu_gosub() returns to the function that called it, with 1 *)
(* or with 0, the active flag and the depth of the FOR stack are what  *)
(* they were when it was called                                        *)
C35_InvokeLabelKeepsMode ==
    pc = "my_call" =>
        LET fr == Top(cstack) IN
        /\ m.active = fr.g_active
        /\ m.for_sp = fr.g_fsp

(* ------------------------------------------------------------------ *)
(* The end of the skip of an inactive FOR                              *)
(* ------------------------------------------------------------------ *)

(* C36: the skip of the body of an inactive FOR ends on every source:  *)
(* every statement it passes moves the cursor forward, so that it      *)
(* reaches the matching NEXT or the end of the source, and at the end  *)
(* of the source it stops with the end of the run or with an error     *)
C36_InactiveForSkipEnds ==
    (g.ev.active = 0 /\ g.ev.msg = "" /\ pc = "stmt" /\ Skipping
        /\ \E j \in 1..Len(g.ev.cs) : g.ev.cs[j].k = "for") =>
        /\ m.s.src = g.ev.s.src
        /\ m.s.pos > g.ev.s.pos
        /\ g.ev.op # "T_END"

(* ------------------------------------------------------------------ *)
(* The depth of the FOR stack                                          *)
(* ------------------------------------------------------------------ *)

(* The number of FOR loops that enclose token p of a source: the FORs  *)
(* before it less the NEXTs before it                                  *)
Enclosing(toks, p) ==
    Cardinality({k \in 1..(p - 1) : toks[k].t = "T_FOR"})
        - Cardinality({k \in 1..(p - 1) : toks[k].t = "T_NEXT"})

(* The deepest nesting of FOR loops in a source *)
Nesting(toks) ==
    CHOOSE d \in 0..Len(toks) :
        /\ \A p \in 1..(Len(toks) + 1) : Enclosing(toks, p) <= d
        /\ d = 0 \/ \E p \in 1..(Len(toks) + 1) : Enclosing(toks, p) = d

(* C37: the depth of the FOR stack is the number of loops in progress: *)
(* in the first run of an instance it never exceeds the number of      *)
(* loops that are nested in the source, however often a loop body is   *)
(* left by GOTO or RETURN and a FOR is entered again, and FOR stack    *)
(* overflow is not raised while fewer than MAX_FOR loops are nested    *)
C37_ForDepthIsLoopsInProgress ==
    (g.runs = 1 /\ pc \in {"program", "stmt", "invoke", "my_call", "idle"}) =>
        LET nested == Nesting(Sources[g.script]) IN
        /\ m.for_sp <= nested
        /\ nested < MAX_FOR => g.ev.msg # "FOR stack overflow"

(* ------------------------------------------------------------------ *)
(* The capacity of the GOSUB stack                                     *)
(* ------------------------------------------------------------------ *)

(* C38: the GOSUB stack holds MAX_GOSUB frames, sentinels of callbacks *)
(* included: a GOSUB, an ON .. GOSUB or a call of mu_gosub() made with *)
(* d frames on the stack raises the overflow error when d = MAX_GOSUB  *)
(* and at no smaller d                                                 *)
C38_GosubStackHoldsMaxGosub ==
    /\ (g.ev.op \in {"T_GOSUB", "T_ON"} /\ g.ev.msg = "GOSUB stack overflow") =>
          g.ev.gsp = MAX_GOSUB
    /\ (g.ev.op = "T_GOSUB" /\ g.ev.active # 0 /\ g.ev.gsp = MAX_GOSUB) =>
          g.ev.msg = "GOSUB stack overflow"
    /\ (g.ev.op = "my_call" /\ pc = "my_call" /\ Top(cstack).rv = 0
           /\ m.error_msg = "GOSUB stack overflow") =>
          g.ev.gsp = MAX_GOSUB
    /\ (g.ev.op = "my_call" /\ g.ev.gsp = MAX_GOSUB) =>
          (pc = "my_call" /\ Top(cstack).rv = 0 /\ m.error_msg = "GOSUB stack overflow")

====
